---- MODULE Spec2Model ----
(***************************************************************************)
(* A model of the Atomi Auto Solver content script (extension/content.js): *)
(* the oracle answer parse, the single-question solve, the Run-All loop    *)
(* with its Stop button, and the native video watchdog.                    *)
(*                                                                         *)
(* Strings are sequences of one-character strings.  JavaScript runs one    *)
(* task at a time: an action of the model is the code that runs between    *)
(* two suspension points (a timer, a storage read, a network reply).  A    *)
(* continuation of an await on an already settled promise is a microtask   *)
(* and belongs to the same action as the code that settled it.             *)
(***************************************************************************)
EXTENDS Integers, Sequences, FiniteSets, TLC

(***************************************************************************)
(* Bounds of the model.                                                    *)
(***************************************************************************)
\* longest primary content of an oracle reply drawn exhaustively
MaxContentLen == 3
\* longest reasoning field of an oracle reply drawn exhaustively
MaxReasoningLen == 1
\* largest number of prompted choices in the parse check
MaxChoices == 3
\* how many times the Run All button is clicked
MaxLoops == 2
\* longest answer list of a page
MaxItems == 2
\* most 200 ms waits of one polling wait before its timeout has passed
MaxPolls == 1
\* longest content of an oracle reply to the Autofill button's solve
MaxReplyLen == 1
\* how many solvable quiz pages the scripted quiz holds before its last page
ScriptedQuizPages == 3
\* how many times attachNativeListener attaches a listener
MaxAttach == 2
\* how many storage reads of checkVideoAutoAdvanceDisable wait for an answer
MaxPending == 1
\* the length of the video, in seconds
MaxDuration == 20
\* the seconds of playback between two looks at the video
TimeStep == 5

(***************************************************************************)
(* Characters and strings.                                                 *)
(***************************************************************************)
DigitChars == <<"0", "1", "2", "3", "4", "5", "6", "7", "8", "9">>

Digits == {DigitChars[i] : i \in 1..10}

Letters ==
  {"a", "b", "c", "d", "e", "f", "g", "h", "i", "j", "k", "l", "m",
   "n", "o", "p", "q", "r", "s", "t", "u", "v", "w", "x", "y", "z"}

\* the characters a JavaScript regular expression's \w matches
IsWordChar(c) == c \in Digits \cup Letters \cup {"_"}

\* the characters String.prototype.trim removes
IsSpace(c) == c \in {" ", "\n", "\t"}

DigitVal(c) == (CHOOSE i \in 1..10 : DigitChars[i] = c) - 1

RECURSIVE TrimLeft(_)
TrimLeft(s) ==
  IF s # <<>> /\ IsSpace(Head(s)) THEN TrimLeft(Tail(s)) ELSE s

RECURSIVE TrimRight(_)
TrimRight(s) ==
  IF s # <<>> /\ IsSpace(s[Len(s)])
    THEN TrimRight(SubSeq(s, 1, Len(s) - 1))
    ELSE s

\* String.prototype.trim
Trim(s) == TrimRight(TrimLeft(s))

(***************************************************************************)
(* callGroqAPI, lines 373-382: the parse of the oracle's reply.            *)
(***************************************************************************)
\* JavaScript null, as callGroqAPI returns it when no number is valid
Null == 0

\* `${content} ${reasoning}` of the trimmed fields
Combined(content, reasoning) == Trim(content) \o <<" ">> \o Trim(reasoning)

\* \b at position i: between s[i-1] and s[i], the ends counting as non-word
WordBoundary(s, i) ==
  LET before == i > 1 /\ i - 1 <= Len(s) /\ IsWordChar(s[i - 1])
      after == i >= 1 /\ i <= Len(s) /\ IsWordChar(s[i])
  IN  before # after

\* the length of the match of /\b([1-9]\d?)\b/ starting at i, 0 for none:
\* \d? is greedy and gives its digit back when \b fails after it
MatchLenAt(s, i) ==
  IF ~(i <= Len(s) /\ WordBoundary(s, i) /\ s[i] \in Digits \ {"0"}) THEN 0
  ELSE IF i + 1 <= Len(s) /\ s[i + 1] \in Digits /\ WordBoundary(s, i + 2) THEN 2
  ELSE IF WordBoundary(s, i + 1) THEN 1
  ELSE 0

\* parseInt(m[1], 10) of a match of length len at i
ParseIntAt(s, i, len) ==
  IF len = 1 THEN DigitVal(s[i]) ELSE 10 * DigitVal(s[i]) + DigitVal(s[i + 1])

\* [...combined.matchAll(re)].map(m => parseInt(m[1], 10)): a global scan,
\* left to right, each search resuming where the last match ended
RECURSIVE MatchAllFrom(_, _)
MatchAllFrom(s, i) ==
  IF i > Len(s) THEN <<>>
  ELSE LET len == MatchLenAt(s, i)
       IN  IF len = 0 THEN MatchAllFrom(s, i + 1)
           ELSE <<ParseIntAt(s, i, len)>> \o MatchAllFrom(s, i + len)

\* a variant of LastOrNull that takes the first match
FirstOrNull(valid) == IF Len(valid) = 0 THEN Null ELSE valid[1]

\* valid.length > 0 ? valid[valid.length - 1] : null
LastOrNull(valid) == IF Len(valid) > 0 THEN valid[Len(valid)] ELSE Null

\* the reply's parse: the last match that is a choice number, else null
ParseAnswer(content, reasoning, numChoices) ==
  LET matches == MatchAllFrom(Combined(content, reasoning), 1)
      InRange(n) == n >= 1 /\ n <= numChoices
  IN  LastOrNull(SelectSeq(matches, InRange))

(***************************************************************************)
(* State.                                                                  *)
(***************************************************************************)
VARIABLES
  parseIn,        \* an oracle reply and the number of choices it answers
  parseOut,       \* [done, value]: what callGroqAPI returned for it
  isAutoRunning,  \* the module's flag of the same name
  status,         \* the text of the panel's status line
  storage,        \* ext.storage.local
  page,           \* what the host page shows
  loops,          \* the Run All clicks: each handler and the runLoop it started
  single,         \* the Autofill click: its handler and runSingleAutofill
  ev,             \* what the last step did to the outside: a click, a request
  script,         \* the pages of a scripted quiz, <<>> under a free host
  log,            \* the clicks made on a scripted quiz, in order
  videoAutoAdvanceEnabled,  \* the module's flag of the same name
  videoEndedListener,       \* the module's variable: the listener attached last
  listeners,      \* the closures attachNativeListener made
  video,          \* the page's video element
  videoNext,      \* whether getVideoNextButton() finds a control
  reattach,       \* the 2 s timers of advanceToNext under way
  vev,            \* what the last step of the watchdog did to the outside
  stored,         \* videoAutoAdvanceEnabled as extension storage holds it
  disable,        \* the auto-disable checks under way
  math,           \* a call of setMathFieldValue: its field, position and writes
  link,           \* a call of clickNextLink: its control and what it did
  wo,             \* the Autofill Working Out click: its handler and its run
  panel,          \* the module's panel variable and the panels in the document
  wistia          \* the Wistia player of the page and the config pushed to it

parseVars == <<parseIn, parseOut>>

runVars == <<isAutoRunning, status, storage, page, loops, single, ev>>

scriptVars == <<script, log>>

videoVars ==
  <<videoAutoAdvanceEnabled, videoEndedListener, listeners, video, videoNext,
    reattach, vev, stored, disable>>

fillVars == <<math, link, wo, panel, wistia>>

vars == <<parseVars, runVars, scriptVars, videoVars, fillVars>>

(***************************************************************************)
(* setMathFieldValue: the writes it makes to a math field, in order.       *)
(***************************************************************************)
MathApis == {"setValue", "insert", "executeCommand"}

\* a math field: whether it has an id, the methods it has, and whether a
\* DataTransfer can be made for it
MathFields == [id : BOOLEAN, api : SUBSET MathApis, transfer : BOOLEAN]

\* pc: "idle", in the wait of 80 ms, in the wait of 120 ms, "done";
\* writes: the writes and the events the call made so far
NoMath ==
  [pc |-> "idle", field |-> [id |-> FALSE, api |-> {}, transfer |-> FALSE],
   writes |-> <<>>]

\* if (id) setMathFieldValueInPage(id, latex), line 460 and lines 444-453
setMathFieldValueInPage(f) == IF f.id THEN <<"script">> ELSE <<>>

\* dispatchPasteWithData, lines 412-428: no event without a DataTransfer
dispatchPasteWithData(f) == IF f.transfer THEN <<"paste">> ELSE <<>>

\* a variant of FirstWrites that pastes before it injects the script
FirstWritesPasteFirst(f) ==
  dispatchPasteWithData(f) \o setMathFieldValueInPage(f)

\* lines 460-461
FirstWrites(f) == setMathFieldValueInPage(f) \o dispatchPasteWithData(f)

\* lines 464-474
DirectWrite(f) ==
  IF "setValue" \in f.api THEN <<"setValue">>
  ELSE IF "insert" \in f.api THEN <<"insert">>
  ELSE IF "executeCommand" \in f.api THEN <<"executeCommand">>
  ELSE <<"forceSetValue">>

\* lines 482-486
SecondWrite(f) ==
  IF "setValue" \in f.api THEN <<"setValue">> ELSE <<"forceSetValue">>

MathStep(m) ==
  /\ math' = m
  /\ UNCHANGED <<parseVars, runVars, scriptVars, videoVars, link, wo, panel,
                 wistia>>

\* setMathFieldValue up to its first wait, lines 455-462
MathFill ==
  /\ math.pc = "idle"
  /\ MathStep([math EXCEPT !.pc = "wait80",
                           !.writes = FirstWrites(math.field)])

\* the timer of 80 ms ends: lines 464-481
MathTimer80 ==
  /\ math.pc = "wait80"
  /\ MathStep([math EXCEPT !.pc = "wait120",
                           !.writes = @ \o DirectWrite(math.field)
                                        \o <<"input", "change">>])

\* the timer of 120 ms ends: lines 482-487
MathTimer120 ==
  /\ math.pc = "wait120"
  /\ MathStep([math EXCEPT !.pc = "done",
                           !.writes = @ \o SecondWrite(math.field)
                                        \o <<"input">>])

\* the custom element of the field is defined while the call waits: the
\* field gets its methods
MathFieldUpgrades ==
  /\ math.pc \in {"wait80", "wait120"}
  /\ math.field.api # MathApis
  /\ MathStep([math EXCEPT !.field.api = MathApis])

(***************************************************************************)
(* clickNextLink.                                                          *)
(***************************************************************************)
\* an origin: its scheme and its host; window.location.origin is the string
\* scheme://host, and a page of a file has the scheme "file"
Origins ==
  {[scheme |-> "https", host |-> "learn"], [scheme |-> "http", host |-> "learn"],
   [scheme |-> "http", host |-> "localhost"], [scheme |-> "file", host |-> ""]}

\* a control's href attribute: none (null), the empty string, a path from
\* the root, a relative path, or an absolute URL
NoUrl == [origin |-> [scheme |-> "", host |-> ""], path |-> ""]

NoHref == [kind |-> "none", url |-> NoUrl]

Hrefs ==
  {NoHref, [kind |-> "empty", url |-> NoUrl],
   [kind |-> "rooted", url |-> [NoUrl EXCEPT !.path = "/next"]],
   [kind |-> "relative", url |-> [NoUrl EXCEPT !.path = "next"]]}
    \cup {[kind |-> "absolute", url |-> [origin |-> o, path |-> "/next"]] :
            o \in {[scheme |-> "https", host |-> "learn"],
                   [scheme |-> "http", host |-> "learn"],
                   [scheme |-> "https", host |-> "other"]}}

\* the next control and the origin of the page it is on
LinkInputs == [tag : {"A", "BUTTON"}, href : Hrefs, origin : Origins]

NotClicked == [how |-> "none", to |-> NoUrl]

NoLink ==
  [in |-> [tag |-> "BUTTON", href |-> NoHref,
           origin |-> [scheme |-> "https", host |-> "learn"]],
   out |-> NotClicked]

\* the working-out task: pc as for the other tasks, with "fill" while
\* setMathFieldValue runs; field, question, body: whether getMathField,
\* getWorkingOutQuestionText and document.body.innerText find something;
\* resp: the reply of the oracle; ret: what runWorkingOutAutofill returned
NoWorkingOut ==
  [pc |-> "unused", field |-> FALSE, question |-> FALSE, body |-> FALSE,
   apiKey |-> <<>>,
   resp |-> [kind |-> "none", ok |-> FALSE, content |-> <<>>,
             reasoning |-> <<>>],
   ret |-> [state |-> "pending", index |-> 0, error |-> ""]]

\* made: the module's panel variable is not null; elements: the panel
\* elements created so far; attached: those in the document; hidden: the
\* panel's display is 'none'
NoPanel == [made |-> FALSE, elements |-> 0, attached |-> 0, hidden |-> FALSE]

\* a page whose player is a Wistia embed: embed: the embed is in the
\* document; config: the config of line 238 is not pushed, is pushed and
\* awaits onReady, or has had its onReady called; duration and t: what the
\* player's duration() and its timechange events give
NoWistia == [embed |-> FALSE, config |-> "none", duration |-> 0, t |-> 0]

\* new URL(href, window.location.origin), line 141: the base is the origin,
\* whose path is "/"
NewUrl(href, origin) ==
  CASE href.kind = "absolute" -> href.url
    [] href.kind = "rooted" -> [origin |-> origin, path |-> href.url.path]
    [] href.kind = "relative"
         -> [origin |-> origin, path |-> "/" \o href.url.path]

\* window.location.origin.startsWith('http'), line 140
StartsWithHttp(origin) == origin.scheme \in {"http", "https"}

\* a variant of clickNextLink that looks at the origin of the target
clickNextLinkSameOrigin(el, origin) ==
  IF /\ el.href.kind \notin {"none", "empty"}
     /\ el.tag = "A"
     /\ StartsWithHttp(origin)
     /\ NewUrl(el.href, origin).origin = origin
    THEN [how |-> "location", to |-> NewUrl(el.href, origin)]
    ELSE [how |-> "click", to |-> NoUrl]

\* clickNextLink of a control that is there, lines 137-146
clickNextLink(el, origin) ==
  IF el.href.kind \notin {"none", "empty"} /\ el.tag = "A"
       /\ StartsWithHttp(origin)
    THEN [how |-> "location", to |-> NewUrl(el.href, origin)]
    ELSE [how |-> "click", to |-> NoUrl]

ClickNextLinkCall ==
  /\ link.out = NotClicked
  /\ link' = [link EXCEPT !.out = clickNextLink(link.in, link.in.origin)]
  /\ UNCHANGED <<parseVars, runVars, scriptVars, videoVars, math, wo, panel,
                 wistia>>

(***************************************************************************)
(* The host page, as the content script reads it.                          *)
(***************************************************************************)
\* a list item of ul[aria-labelledby]: with a button whose label is not
\* empty, with a button whose label is empty once "Choice X" is stripped
\* and the text trimmed, or without a button[type="button"]
ItemKinds == {"labelled", "blank", "nobutton"}

ItemLists == UNION {[1..k -> ItemKinds] : k \in 0..MaxItems}

\* question: getQuestionText() finds text; check, next: an enabled "Check
\* Answer" control, an enabled next control, is in the document
Pages ==
  [no : {1}, question : BOOLEAN, items : ItemLists,
   check : BOOLEAN, next : BOOLEAN]

Indices(items, Keep(_)) ==
  LET Pick(j) == Keep(items[j])
      RECURSIVE From(_)
      From(j) == IF j > Len(items) THEN <<>>
                 ELSE IF Pick(j) THEN <<j>> \o From(j + 1) ELSE From(j + 1)
  IN  From(1)

HasButton(kind) == kind # "nobutton"

HasLabel(kind) == kind = "labelled"

\* a variant of isQuizPage that is content with one button
isQuizPageOneButton(p) ==
  /\ Len(p.items) >= 2
  /\ Len(Indices(p.items, HasButton)) >= 1

\* isQuizPage, lines 289-302
isQuizPage(p) ==
  /\ Len(p.items) >= 2
  /\ Len(Indices(p.items, HasButton)) >= 2

\* getQuestionText, lines 304-323: whether the text found is not empty
getQuestionText(p) == p.question

\* getAnswers, lines 325-337: the labels that are not empty, each named by
\* the list item it is the label of
getAnswers(p) == Indices(p.items, HasLabel)

\* getAnswerButtons, lines 339-345: the buttons, as handles
getAnswerButtons(p) ==
  LET idx == Indices(p.items, HasButton)
  IN  [j \in 1..Len(idx) |-> [page |-> p.no, li |-> idx[j]]]

(***************************************************************************)
(* What a step does to the outside.                                        *)
(***************************************************************************)
NoHandle == [page |-> 0, li |-> 0]

\* kind: a request sent or a control clicked, by: the task, target and
\* index: the answer button clicked, said: the statuses the step reported
NoEvent ==
  [kind |-> "none", by |-> 0, target |-> NoHandle, index |-> 0, said |-> <<>>,
   key |-> <<>>, model |-> ""]

\* loop i sends its chat completion request, with the key as its bearer
\* credential and the model in its body
RequestEvent(i, apiKey, model) ==
  [NoEvent EXCEPT !.kind = "request", !.by = i, !.key = apiKey,
                  !.model = model]

\* loop i clicks the answer button h, the index-th of its extraction
AnswerClick(i, h, index) ==
  [NoEvent EXCEPT !.kind = "answer", !.by = i, !.target = h, !.index = index]

CheckClick(i) == [NoEvent EXCEPT !.kind = "check", !.by = i]

NextClick(i) == [NoEvent EXCEPT !.kind = "next", !.by = i]

ClickKinds == {"answer", "check", "next"}

\* the log of a scripted quiz once a step left event e: the statuses it
\* reported, and the click with the page it was made on
Logged(e) ==
  IF script = <<>> THEN log
  ELSE LET said == [j \in 1..Len(e.said) |-> [kind |-> e.said[j], page |-> page.no]]
       IN  IF e.kind \in ClickKinds
             THEN log \o said \o <<[kind |-> e.kind, page |-> page.no]>>
             ELSE log \o said

(***************************************************************************)
(* solveCurrentQuestion and callGroqAPI, run by a task: a Run-All loop or  *)
(* the Autofill button's handler.                                          *)
(***************************************************************************)
LoopIds == 1..MaxLoops

\* the Autofill button's task, where a loop's number is asked for
SingleId == 0

\* where a task stands: its handler ("unused": not clicked, "checkKey": in
\* checkApiKey's storage read, "returned": back without a solve), the
\* solve, the waits of runLoop, and "done": the promise is settled
Pcs ==
  {"unused", "checkKey", "returned", "getModel", "fetch", "json",
   "wait500", "pollCheck", "wait1200", "pollNext", "wait2000", "done"}

\* the task is started and its promise is not settled
LivePcs == Pcs \ {"unused", "checkKey", "returned", "done"}

NoReply == [kind |-> "none", ok |-> FALSE, content |-> <<>>, reasoning |-> <<>>]

\* pc; the extraction's buttons and number of answers; the reply being
\* read; the polls of the wait under way; whether Stop was clicked while
\* the task was live
\* apiKey: the key the handler got from checkApiKey and passed on
NewTask ==
  [pc |-> "unused", buttons |-> <<>>, n |-> 0, resp |-> NoReply, polls |-> 0,
   stopReq |-> FALSE, apiKey |-> <<>>]

ErrNoExtract == "Could not extract question or answers"
ErrInvalid == "Invalid API response (got null)"
ErrApi == "API error"

\* what solveCurrentQuestion gave its caller: nothing yet, a result, or an
\* exception
NoRet == [state |-> "pending", index |-> 0, error |-> ""]

RetOk(index) == [state |-> "ok", index |-> index, error |-> ""]

RetFail(error) == [state |-> "fail", index |-> 0, error |-> error]

RetThrew(error) == [state |-> "threw", index |-> 0, error |-> error]

\* the context a segment of a task's code runs in and rewrites: the task's
\* record, the flag, the status line, the event it leaves, and what the
\* solve returned
CtxOf(l) ==
  [l |-> l, running |-> isAutoRunning, status |-> status, ev |-> NoEvent,
   ret |-> NoRet]

\* statusCallback(msg), which is setStatus of lines 767-769
Report(c, msg) ==
  [c EXCEPT !.status = msg, !.ev.said = Append(c.ev.said, msg)]

Goto(c, pc) == [c EXCEPT !.l.pc = pc, !.l.polls = 0]

\* the step's request or click
Emit(c, e) == [c EXCEPT !.ev = [e EXCEPT !.said = c.ev.said]]

\* the task's locals are gone
Settle(c) ==
  [c EXCEPT !.l.pc = "done", !.l.buttons = <<>>, !.l.n = 0,
            !.l.resp = NoReply, !.l.polls = 0, !.l.stopReq = FALSE,
            !.l.apiKey = <<>>]

\* solveCurrentQuestion up to its first await, lines 525-533
solveExtract(c, p) ==
  IF ~getQuestionText(p) \/ Len(getAnswers(p)) = 0
       \/ Len(getAnswerButtons(p)) = 0
    THEN [c EXCEPT !.ret = RetFail(ErrNoExtract)]
    ELSE [Goto(c, "getModel") EXCEPT !.l.buttons = getAnswerButtons(p),
                                     !.l.n = Len(getAnswers(p))]

\* a variant of solveSelect that clicks the first button for any valid index
solveSelectFirst(c, by, answerIndex) ==
  IF answerIndex = Null \/ answerIndex < 1 \/ answerIndex > Len(c.l.buttons)
    THEN [c EXCEPT !.ret = RetFail(ErrInvalid)]
    ELSE [Emit(c, AnswerClick(by, c.l.buttons[1], answerIndex))
            EXCEPT !.ret = RetOk(answerIndex)]

\* a variant of solveSelect that guesses the first answer when there is none
solveSelectGuess(c, by, answerIndex) ==
  IF answerIndex = Null \/ answerIndex < 1 \/ answerIndex > Len(c.l.buttons)
    THEN [Emit(c, AnswerClick(by, c.l.buttons[1], 1)) EXCEPT !.ret = RetOk(1)]
    ELSE [Emit(c, AnswerClick(by, c.l.buttons[answerIndex], answerIndex))
            EXCEPT !.ret = RetOk(answerIndex)]

\* solveCurrentQuestion once callGroqAPI returned answerIndex, lines 535-542
solveSelect(c, by, answerIndex) ==
  IF answerIndex = Null \/ answerIndex < 1 \/ answerIndex > Len(c.l.buttons)
    THEN [c EXCEPT !.ret = RetFail(ErrInvalid)]
    ELSE [Emit(c, AnswerClick(by, c.l.buttons[answerIndex], answerIndex))
            EXCEPT !.ret = RetOk(answerIndex)]

\* callGroqAPI once the reply is there, lines 368-382, and the solve after it
callGroqAPI(c, by) ==
  IF ~c.l.resp.ok
    THEN [c EXCEPT !.ret = RetThrew(ErrApi)]
    ELSE solveSelect(c, by,
                     ParseAnswer(c.l.resp.content, c.l.resp.reasoning, c.l.n))

(***************************************************************************)
(* runAllQuestions and its runLoop.                                        *)
(***************************************************************************)
StatusSolving == "Solving current question..."
StatusMoving == "Moving to next question..."
StatusComplete == "Quiz complete!"
StatusReady == "Ready"
StatusStopping == "Stopping..."

\* `Stopped: ${solved.error}` of line 601
StoppedMsg(error) ==
  IF error = ErrNoExtract
    THEN "Stopped: Could not extract question or answers"
    ELSE "Stopped: Invalid API response (got null)"

\* `Error: ${err.message}` of lines 597, 576 and 580
ErrorMsg(error) ==
  IF error = ErrApi THEN "Error: API error"
  ELSE IF error = ErrNoExtract
    THEN "Error: Could not extract question or answers"
    ELSE "Error: Invalid API response (got null)"

\* a variant of Finally that leaves the flag as it is
FinallyKeepsFlag(c) == Report(Settle(c), StatusReady)

\* the finally block of runLoop, lines 626-629
Finally(c) == Report([Settle(c) EXCEPT !.running = FALSE], StatusReady)

\* a variant of SolveFailed that goes on with the iteration
SolveFailedGoesOn(c) == Goto(Report(c, StoppedMsg(c.ret.error)), "wait500")

\* solveCurrentQuestion returned {success: false}: lines 600-603
SolveFailed(c) == Finally(Report(c, StoppedMsg(c.ret.error)))

\* solveCurrentQuestion threw: lines 596-599
SolveThrew(c) == Finally(Report(c, ErrorMsg(c.ret.error)))

\* runLoop once solveCurrentQuestion settled, lines 594-605
AfterSolve(c) ==
  CASE c.ret.state = "pending" -> c
    [] c.ret.state = "threw" -> SolveThrew(c)
    [] c.ret.state = "fail" -> SolveFailed(c)
    [] c.ret.state = "ok" -> Goto(c, "wait500")

\* a variant of LoopTop that does not read isAutoRunning
LoopTopIgnoresStop(c, p) ==
  IF isQuizPage(p)
    THEN AfterSolve(solveExtract(Report(c, StatusSolving), p))
    ELSE Finally(c)

\* the while condition of line 591 and the iteration up to its first await
LoopTop(c, p) ==
  IF c.running /\ isQuizPage(p)
    THEN AfterSolve(solveExtract(Report(c, StatusSolving), p))
    ELSE Finally(c)

\* one round of waitForCheckAnswerEnabled, lines 552-554, and lines 609-611
CheckPoll(c, i, p) ==
  IF p.check
    THEN Goto(Emit(c, CheckClick(i)), "wait1200")
    ELSE [c EXCEPT !.l.pc = "pollCheck", !.l.polls = c.l.polls + 1]

\* a variant of NextPoll that starts the next question without the pause
NextPollNoPause(c, i, p) ==
  IF p.next
    THEN Goto(Emit(Report(c, StatusMoving), NextClick(i)), "getModel")
    ELSE [c EXCEPT !.l.pc = "pollNext", !.l.polls = c.l.polls + 1]

\* one round of waitForNextButton, lines 562-564, and lines 616-619
NextPoll(c, i, p) ==
  IF p.next
    THEN Goto(Emit(Report(c, StatusMoving), NextClick(i)), "wait2000")
    ELSE [c EXCEPT !.l.pc = "pollNext", !.l.polls = c.l.polls + 1]

\* a variant of CheckTimedOut that gives the run up
CheckTimedOutEndsRun(c, i, p) == Finally(c)

\* waitForCheckAnswerEnabled returned null: the check click of lines 609-612
\* is skipped and waitForNextButton starts, line 615
CheckTimedOut(c, i, p) == NextPoll(Goto(c, "pollNext"), i, p)

\* a variant of NoNextButton that does not report the completion
NoNextButtonSilent(c) == Finally(c)

\* waitForNextButton returned null: lines 620-624
NoNextButton(c) == Finally(Report(c, StatusComplete))

\* a step of loop i that leaves context c
Commit(i, c) ==
  /\ loops' = [loops EXCEPT ![i] = c.l]
  /\ isAutoRunning' = c.running
  /\ status' = c.status
  /\ ev' = c.ev
  /\ log' = Logged(c.ev)
  /\ UNCHANGED <<storage, page, single, script, parseVars, fillVars, videoVars>>

Ctx(i) == CtxOf(loops[i])

\* a variant of HasKey that does not trim
HasKeyUntrimmed(apiKey) == Len(apiKey) > 0

\* checkApiKey's hasKey, line 774
HasKey(apiKey) == Len(Trim(apiKey)) > 0

\* runAllBtn.onclick, lines 791-792: the click, up to the storage read
RunAllClick(i) ==
  /\ loops[i].pc = "unused"
  /\ \A j \in LoopIds : j < i => loops[j].pc # "unused"
  /\ Commit(i, Goto(Ctx(i), "checkKey"))

\* a variant of runAllQuestions without the test of line 586
runAllQuestionsUnguarded(c, p) == LoopTop([c EXCEPT !.running = TRUE], p)

\* runAllQuestions, lines 585-633
runAllQuestions(c, p) ==
  IF c.running
    THEN Goto(c, "returned")
    ELSE LoopTop([c EXCEPT !.running = TRUE], p)

\* the storage read of checkApiKey returns: lines 774-776 and 793-796
KeyRead(i) ==
  /\ loops[i].pc = "checkKey"
  /\ Commit(i, IF HasKey(storage.apiKey)
                 THEN runAllQuestions(
                        [Ctx(i) EXCEPT !.l.apiKey = storage.apiKey], page)
                 ELSE Goto(Ctx(i), "returned"))

DEFAULT_MODEL == "llama-3.3-70b-versatile"

\* model || DEFAULT_MODEL, line 534: "" stands for no model stored
ModelOrDefault(model) == IF model = "" THEN DEFAULT_MODEL ELSE model

\* a variant of RequestKey that takes the key from storage
RequestKeyStored(l, st) == st.apiKey

\* the apiKey of line 534: the parameter of solveCurrentQuestion
RequestKey(l, st) == l.apiKey

\* the request of task l, sent as by, when storage is st
Request(l, by, st) ==
  RequestEvent(by, RequestKey(l, st), ModelOrDefault(st.model))

\* the storage read of line 533 returns and the request of line 351 is sent
ModelRead(i) ==
  /\ loops[i].pc = "getModel"
  /\ Commit(i, Goto(Emit(Ctx(i), Request(loops[i], i, storage)), "fetch"))

\* fetch settles, line 351: a rejection is thrown to runLoop's catch
OracleReply(i, r) ==
  /\ loops[i].pc = "fetch"
  /\ Commit(i, IF r.kind = "reject"
                 THEN AfterSolve([Ctx(i) EXCEPT !.ret = RetThrew(ErrApi)])
                 ELSE [Goto(Ctx(i), "json") EXCEPT !.l.resp = r])

\* the reply's body is read, lines 369 and 373
ReplyBody(i) ==
  /\ loops[i].pc = "json"
  /\ Commit(i, AfterSolve(callGroqAPI(Ctx(i), i)))

\* the wait of line 605 ends: waitForCheckAnswerEnabled starts
Timer500(i) ==
  /\ loops[i].pc = "wait500"
  /\ Commit(i, CheckPoll(Ctx(i), i, page))

\* a 200 ms wait of waitForCheckAnswerEnabled ends, line 554; timedOut:
\* Date.now() - start has reached the timeout.  A null result goes on to
\* waitForNextButton, line 615
PollCheckTimer(i, timedOut) ==
  /\ loops[i].pc = "pollCheck"
  /\ loops[i].polls >= MaxPolls => timedOut
  /\ Commit(i, IF timedOut
                 THEN CheckTimedOut(Ctx(i), i, page)
                 ELSE CheckPoll(Ctx(i), i, page))

\* the wait of line 611 ends: waitForNextButton starts
Timer1200(i) ==
  /\ loops[i].pc = "wait1200"
  /\ Commit(i, NextPoll(Ctx(i), i, page))

\* a 200 ms wait of waitForNextButton ends, line 564
PollNextTimer(i, timedOut) ==
  /\ loops[i].pc = "pollNext"
  /\ loops[i].polls >= MaxPolls => timedOut
  /\ Commit(i, IF timedOut
                 THEN NoNextButton(Ctx(i))
                 ELSE NextPoll(Ctx(i), i, page))

\* the wait of line 619 ends: the while condition is evaluated again
Timer2000(i) ==
  /\ loops[i].pc = "wait2000"
  /\ Commit(i, LoopTop(Ctx(i), page))

\* stopBtn.onclick, lines 800-803
StopClick ==
  /\ isAutoRunning' = FALSE
  /\ status' = StatusStopping
  /\ loops' = [i \in LoopIds |->
                 IF loops[i].pc \in LivePcs
                   THEN [loops[i] EXCEPT !.stopReq = TRUE]
                   ELSE loops[i]]
  /\ ev' = NoEvent
  /\ UNCHANGED <<storage, page, single, scriptVars, parseVars, fillVars, videoVars>>

(***************************************************************************)
(* The Autofill button and runSingleAutofill.                              *)
(***************************************************************************)
StatusSolvingOne == "Solving..."

\* `Selected answer ${result.index}` of line 574
SelectedMsg(index) ==
  <<"Selected answer 1", "Selected answer 2", "Selected answer 3",
    "Selected answer 4", "Selected answer 5">>[index]

\* runSingleAutofill once solveCurrentQuestion settled, lines 572-582, and
\* the handler's line 785
SingleAfterSolve(c) ==
  CASE c.ret.state = "pending" -> c
    [] c.ret.state = "ok" -> Settle(Report(c, SelectedMsg(c.ret.index)))
    [] OTHER -> Settle(Report(c, ErrorMsg(c.ret.error)))

CommitSingle(c) ==
  /\ single' = c.l
  /\ status' = c.status
  /\ ev' = c.ev
  /\ log' = Logged(c.ev)
  /\ UNCHANGED <<isAutoRunning, storage, page, loops, script, parseVars, fillVars, videoVars>>

\* autofillBtn.onclick, lines 780-781: the click, up to the storage read;
\* the button is disabled from line 783 to line 785
AutofillClick ==
  /\ single.pc \in {"unused", "returned", "done"}
  /\ CommitSingle(Goto(CtxOf(NewTask), "checkKey"))

\* the storage read of checkApiKey returns: lines 774-776, 782-784 and 570
AutofillKeyRead ==
  /\ single.pc = "checkKey"
  /\ CommitSingle(
       IF HasKey(storage.apiKey)
         THEN SingleAfterSolve(
                solveExtract(
                  Report([CtxOf(single) EXCEPT !.l.apiKey = storage.apiKey],
                         StatusSolvingOne),
                  page))
         ELSE Goto(CtxOf(single), "returned"))

AutofillModelRead ==
  /\ single.pc = "getModel"
  /\ CommitSingle(Goto(Emit(CtxOf(single), Request(single, SingleId, storage)),
                        "fetch"))

AutofillReply(r) ==
  /\ single.pc = "fetch"
  /\ CommitSingle(
       IF r.kind = "reject"
         THEN SingleAfterSolve([CtxOf(single) EXCEPT !.ret = RetThrew(ErrApi)])
         ELSE [Goto(CtxOf(single), "json") EXCEPT !.l.resp = r])

AutofillBody ==
  /\ single.pc = "json"
  /\ CommitSingle(SingleAfterSolve(callGroqAPI(CtxOf(single), SingleId)))

(***************************************************************************)
(* runWorkingOutAutofill, run by the Autofill Working Out button.          *)
(***************************************************************************)
\* the working-out task, where a task's number is asked for
WorkingOutId == -1

ErrNoField == "No math field found"
ErrNoQuestion == "Could not extract question"
ErrEmpty == "Empty API response"

\* a step of the working-out task: w the task, e its request if any, said
\* the statuses it reported, m the call of setMathFieldValue
WoStep(w, e, said, m) ==
  /\ wo' = w
  /\ ev' = [e EXCEPT !.said = said]
  /\ status' = IF said = <<>> THEN status ELSE said[Len(said)]
  /\ math' = m
  /\ UNCHANGED <<isAutoRunning, storage, page, loops, single, scriptVars,
                 parseVars, videoVars, link, panel, wistia>>

\* the task ends with result ret after reporting said
WoEnds(ret, said) ==
  WoStep([wo EXCEPT !.pc = "done", !.ret = ret], NoEvent, said, math)

\* workingOutBtn.onclick, lines 807-808: the click, up to the storage read;
\* the button is disabled from line 810 to line 812
WorkingOutClick ==
  /\ wo.pc \in {"unused", "returned", "done"}
  /\ WoStep([wo EXCEPT !.pc = "checkKey", !.apiKey = <<>>,
                       !.resp = NoReply, !.ret = NoRet],
            NoEvent, <<>>, [math EXCEPT !.pc = "idle", !.writes = <<>>])

\* the storage read of checkApiKey returns: lines 774-776, 809 and
\* runWorkingOutAutofill up to its first await, lines 490-509
WoKeyRead ==
  /\ wo.pc = "checkKey"
  /\ IF ~HasKey(storage.apiKey)
       THEN WoStep([wo EXCEPT !.pc = "returned"], NoEvent, <<>>, math)
     ELSE IF ~wo.field
       THEN WoEnds(RetFail(ErrNoField), <<"No math input found">>)
     ELSE IF ~wo.question /\ ~wo.body
       THEN WoEnds(RetFail(ErrNoQuestion), <<"No question text found">>)
     ELSE WoStep([wo EXCEPT !.pc = "getModel", !.apiKey = storage.apiKey],
                 NoEvent,
                 (IF wo.question THEN <<>> ELSE <<"Using page text...">>)
                   \o <<"Solving working out...">>,
                 math)

\* the storage read of line 509 returns and the request of line 386 is sent
WoModelRead ==
  /\ wo.pc = "getModel"
  /\ WoStep([wo EXCEPT !.pc = "fetch"],
            RequestEvent(WorkingOutId, wo.apiKey, ModelOrDefault(storage.model)),
            <<>>, math)

\* fetch settles, line 386: a rejection goes to the catch of lines 519-522
WoReply(r) ==
  /\ wo.pc = "fetch"
  /\ IF r.kind = "reject"
       THEN WoEnds(RetFail(ErrApi), <<ErrorMsg(ErrApi)>>)
       ELSE WoStep([wo EXCEPT !.pc = "json", !.resp = r], NoEvent, <<>>, math)

\* a variant of EmptyWorkingOut that takes any text
EmptyWorkingOutNever(content) == FALSE

\* (msg.content || '').trim() of line 409 is empty: !workingOut of line 511
EmptyWorkingOut(content) == Trim(content) = <<>>

\* the reply's body is read, lines 403-409, and lines 511-515 up to the
\* first wait of setMathFieldValue
WoBody ==
  /\ wo.pc = "json"
  /\ IF ~wo.resp.ok
       THEN WoEnds(RetFail(ErrApi), <<ErrorMsg(ErrApi)>>)
     ELSE IF EmptyWorkingOut(wo.resp.content)
       THEN WoEnds(RetFail(ErrEmpty), <<"Empty response from API">>)
     ELSE WoStep([wo EXCEPT !.pc = "fill"], NoEvent, <<>>,
                 [math EXCEPT !.pc = "wait80",
                              !.writes = FirstWrites(math.field)])

\* setMathFieldValue returned: lines 516-517
WoFilled ==
  /\ wo.pc = "fill"
  /\ math.pc = "done"
  /\ WoEnds(RetOk(0), <<"Working out filled">>)

(***************************************************************************)
(* setupVideoAutoAdvance on a page with a native video element.            *)
(***************************************************************************)
\* video.duration before the metadata is loaded
NaN == -1

ADVANCE_SECONDS_BEFORE_END == 10

ListenerIds == 1..MaxAttach

\* video.duration, video.currentTime, video.ended of the page's video
\* element; present: the element is in the document
Durations == {NaN, 0, MaxDuration}

Times == {t \in 0..MaxDuration : t % TimeStep = 0 \/ t = MaxDuration}

\* present: the document holds a video element; player: it holds a player
\* container, a Wistia embed or the post pagination
Videos ==
  {v \in [present : BOOLEAN, player : BOOLEAN, duration : Durations,
          currentTime : Times, ended : BOOLEAN] :
     v.ended => v.duration # NaN /\ v.currentTime = v.duration}

NoVideo ==
  [present |-> FALSE, player |-> FALSE, duration |-> NaN, currentTime |-> 0,
   ended |-> FALSE]

\* videoEndedListener: null, or the listener of closure id, whose interval
\* field holds a timer (TRUE) or null
NoListener == [id |-> 0, interval |-> FALSE]

\* a closure of attachNativeListener: its one-shot guard, whether its
\* interval runs, whether its handlers are on the video element, and how
\* many times it has called advanceToNext; failed: such a call found no next
\* control
NewListener ==
  [made |-> FALSE, advanced |-> FALSE, interval |-> FALSE,
   handlers |-> FALSE, calls |-> 0, failed |-> FALSE]

\* clicks: how many times the step activated the next control; off: the
\* step wrote videoAutoAdvanceEnabled: false to storage on its own, "check"
\* from checkVideoAutoAdvanceDisable and "load" from the timer of the load
NoVideoEvent == [clicks |-> 0, said |-> <<>>, off |-> "no"]

\* checkVideoAutoAdvanceDisable and the flag's load under way: throttle:
\* videoAdvanceCheckTimer is set; gets: the storage reads of line 879 not
\* yet answered; scheduled: videoAdvanceDisableScheduled, the 2.5 s timer of
\* line 884 runs; final: the storage read of line 886 is not yet answered;
\* loadTimer: the 2.5 s timer of line 843 runs.  sawScheduled, sawFinal,
\* sawLoad record whether the page has been a video page since the timer
\* of that name was started.  load: the storage read of line 840 is not
\* under way, is sent, or has been served by the storage and awaits its
\* callback; loadValue: the flag the storage served
NoDisable ==
  [throttle |-> FALSE, gets |-> 0, scheduled |-> FALSE, final |-> FALSE,
   loadTimer |-> FALSE, sawScheduled |-> FALSE, sawFinal |-> FALSE,
   sawLoad |-> FALSE, load |-> "none", loadValue |-> FALSE]

\* the context a step of the watchdog runs in and rewrites
VideoCtx ==
  [vel |-> videoEndedListener, cl |-> listeners, reattach |-> reattach,
   clicks |-> 0, said |-> <<>>]

\* advanceToNext, lines 149-165
advanceToNext(w) ==
  LET w1 == IF w.vel.id # 0 /\ w.vel.interval
              THEN [w EXCEPT !.cl[w.vel.id].interval = FALSE,
                             !.vel.interval = FALSE]
              ELSE w
  IN  IF videoNext
        THEN [w1 EXCEPT !.said = Append(@, "Advancing to next..."),
                        !.clicks = @ + 1,
                        !.vel = NoListener,
                        !.reattach = @ + 1]
        ELSE [w1 EXCEPT !.said = Append(@, "No Next button found")]

\* advanced = true; advanceToNext(); of closure c
Advance(w, c) ==
  LET w1 == advanceToNext([w EXCEPT !.cl[c].advanced = TRUE,
                                    !.cl[c].calls = @ + 1])
  IN  IF videoNext THEN w1 ELSE [w1 EXCEPT !.cl[c].failed = TRUE]

NearEndUnguarded(v) ==
  LET limit == IF v.duration - ADVANCE_SECONDS_BEFORE_END > 0
                 THEN v.duration - ADVANCE_SECONDS_BEFORE_END
                 ELSE 0
  IN  v.currentTime >= limit

\* duration > 0 && t >= duration - ADVANCE_SECONDS_BEFORE_END of the
\* timechange handler of a Wistia player, line 248: NaN > 0 is false
WistiaNearEnd(duration, t) ==
  duration # NaN /\ duration > 0 /\ t >= duration - ADVANCE_SECONDS_BEFORE_END

\* duration > 0 && !isNaN(duration) &&
\* current >= Math.max(0, duration - ADVANCE_SECONDS_BEFORE_END), line 203
NearEnd(v) ==
  LET limit == IF v.duration - ADVANCE_SECONDS_BEFORE_END > 0
                 THEN v.duration - ADVANCE_SECONDS_BEFORE_END
                 ELSE 0
  IN  v.duration # NaN /\ v.duration > 0 /\ v.currentTime >= limit

\* checkTime of closure c, lines 199-211
checkTime(w, c, v) ==
  IF ~videoAutoAdvanceEnabled \/ w.cl[c].advanced THEN w
  ELSE LET w1 == IF NearEnd(v) THEN Advance(w, c) ELSE w
       IN  IF v.ended THEN Advance(w1, c) ELSE w1

\* a variant of onEnded without the one-shot guard
onEndedAgain(w, c) ==
  IF ~videoAutoAdvanceEnabled THEN w ELSE Advance(w, c)

\* onEnded of closure c, lines 213-217
onEnded(w, c) ==
  IF ~videoAutoAdvanceEnabled \/ w.cl[c].advanced THEN w ELSE Advance(w, c)

\* attachNativeListener(video) with the flag as given, lines 188-229, c
\* the new closure: the page has one video element, so the handlers
\* removed at lines 221-222 are those of the listener attached last
attachNativeListener(w, c, enabled, v) ==
  IF ~v.present \/ ~enabled THEN w
  ELSE LET old == w.vel.id
           w1 == IF old # 0 /\ w.vel.interval
                   THEN [w EXCEPT !.cl[old].interval = FALSE]
                   ELSE w
           w2 == IF old # 0
                   THEN [w1 EXCEPT !.cl[old].handlers = FALSE]
                   ELSE w1
       IN  [w2 EXCEPT !.cl[c] = [NewListener EXCEPT !.made = TRUE,
                                                    !.interval = TRUE,
                                                    !.handlers = TRUE],
                      !.vel = [id |-> c, interval |-> TRUE]]

\* setupVideoAutoAdvance on a page whose video, if any, is a native
\* element: lines 265-270
setupVideoAutoAdvance(w, c, enabled, v) ==
  IF v.present
    THEN [attachNativeListener(w, c, enabled, v)
            EXCEPT !.said = Append(@, "Listening for video end")]
    ELSE w

\* the closure the next attachNativeListener makes, 0 when the model's
\* bound is reached
FreeListener ==
  IF \E c \in ListenerIds : ~listeners[c].made
    THEN CHOOSE c \in ListenerIds :
           ~listeners[c].made /\ \A d \in ListenerIds : d < c => listeners[d].made
    ELSE 0

VideoCommit(w, enabled) ==
  /\ videoAutoAdvanceEnabled' = enabled
  /\ videoEndedListener' = w.vel
  /\ listeners' = w.cl
  /\ reattach' = w.reattach
  /\ vev' = [NoVideoEvent EXCEPT !.clicks = w.clicks, !.said = w.said]
  /\ status' = IF w.said = <<>> THEN status ELSE w.said[Len(w.said)]
  /\ UNCHANGED <<isAutoRunning, storage, page, loops, single, ev, scriptVars,
                 parseVars, fillVars, video, videoNext>>

\* a step of the watchdog that leaves storage and the checks alone
VideoStep(w) ==
  /\ VideoCommit(w, videoAutoAdvanceEnabled)
  /\ UNCHANGED <<stored, disable>>

\* videoToggleBtn.onclick, lines 827-839
VideoToggleClick ==
  LET enabled == ~videoAutoAdvanceEnabled
      w == IF enabled
             THEN [setupVideoAutoAdvance(VideoCtx, FreeListener, enabled, video)
                     EXCEPT !.said = Append(@, "When video ends, will click Next")]
             ELSE [VideoCtx EXCEPT !.said = <<"">>]
  IN  /\ enabled /\ video.present => FreeListener # 0
      /\ VideoCommit(w, enabled)
      /\ stored' = enabled
      /\ UNCHANGED disable

\* the interval of closure c ticks, line 225
PollTick(c) ==
  /\ listeners[c].interval
  /\ VideoStep(checkTime(VideoCtx, c, video))

\* a timeupdate event reaches closure c's handler, line 212
TimeUpdate(c) ==
  /\ video.present
  /\ listeners[c].handlers
  /\ VideoStep(checkTime(VideoCtx, c, video))

\* an ended event reaches closure c's handler
Ended(c) ==
  /\ video.present
  /\ video.ended
  /\ listeners[c].handlers
  /\ VideoStep(onEnded(VideoCtx, c))

\* a variant of isVideoPage that is content with a video element
isVideoPageAnyVideo(v) == v.present

\* isVideoPage, lines 113-120, of a page whose video, if any, is a native
\* element
isVideoPage(v) == v.player /\ v.present

\* the timer of lines 159-161 ends
ReattachTimer ==
  /\ reattach > 0
  /\ LET again == videoAutoAdvanceEnabled /\ isVideoPage(video)
         w == [VideoCtx EXCEPT !.reattach = @ - 1]
     IN  /\ again => FreeListener # 0
         /\ VideoStep(IF again
                        THEN setupVideoAutoAdvance(w, FreeListener,
                                                   videoAutoAdvanceEnabled, video)
                        ELSE w)

(***************************************************************************)
(* setupVideoAutoAdvance on a page whose player is a Wistia embed and      *)
(* that holds no video element: lines 231-263 and 272-276.  A closure of   *)
(* onReady is a record of listeners with no interval; its handlers stay    *)
(* bound to the player when a later config is pushed.                      *)
(***************************************************************************)
WistiaCommit(w, enabled, wi) ==
  /\ videoAutoAdvanceEnabled' = enabled
  /\ videoEndedListener' = w.vel
  /\ listeners' = w.cl
  /\ reattach' = w.reattach
  /\ vev' = [NoVideoEvent EXCEPT !.clicks = w.clicks, !.said = w.said]
  /\ status' = IF w.said = <<>> THEN status ELSE w.said[Len(w.said)]
  /\ wistia' = wi
  /\ UNCHANGED <<isAutoRunning, storage, page, loops, single, ev, scriptVars,
                 parseVars, math, link, wo, panel, video, videoNext, disable>>

\* tryWistiaApi, lines 231-263: the config before it is revoked and a new
\* one is pushed, whose onReady the player will call
tryWistiaApi(wi) == [wi EXCEPT !.config = "pushed"]

\* the status setupVideoAutoAdvance reports on such a page, lines 272-276
WistiaSaid(w, wi) ==
  IF wi.embed THEN [w EXCEPT !.said = Append(@, "Using Wistia API")] ELSE w

\* videoToggleBtn.onclick, lines 827-839, on such a page
WistiaToggleClick ==
  LET enabled == ~videoAutoAdvanceEnabled
      w == IF enabled
             THEN [WistiaSaid(VideoCtx, wistia)
                     EXCEPT !.said = Append(@, "When video ends, will click Next")]
             ELSE [VideoCtx EXCEPT !.said = <<"">>]
  IN  /\ ~video.present
      /\ WistiaCommit(w, enabled,
                      IF enabled /\ wistia.embed THEN tryWistiaApi(wistia)
                                                 ELSE wistia)
      /\ stored' = enabled

\* the player calls onReady of the config pushed last, lines 240-258
WistiaReady ==
  /\ wistia.embed
  /\ wistia.config = "pushed"
  /\ videoAutoAdvanceEnabled => FreeListener # 0
  /\ WistiaCommit(IF videoAutoAdvanceEnabled
                    THEN [VideoCtx EXCEPT
                            !.cl[FreeListener] =
                               [NewListener EXCEPT !.made = TRUE,
                                                   !.handlers = TRUE]]
                    ELSE VideoCtx,
                  videoAutoAdvanceEnabled,
                  [wistia EXCEPT !.config = "ready"])
  /\ UNCHANGED stored

\* a variant of wistiaTimeChange that does not read the flag
wistiaTimeChangeUnguarded(w, c, wi) ==
  IF w.cl[c].advanced THEN w
  ELSE IF WistiaNearEnd(wi.duration, wi.t) THEN Advance(w, c) ELSE w

\* the timechange handler of closure c, lines 245-252
wistiaTimeChange(w, c, wi) ==
  IF ~videoAutoAdvanceEnabled \/ w.cl[c].advanced THEN w
  ELSE IF WistiaNearEnd(wi.duration, wi.t) THEN Advance(w, c) ELSE w

\* the end handler of closure c, lines 253-257
wistiaEnd(w, c) ==
  IF ~videoAutoAdvanceEnabled \/ w.cl[c].advanced THEN w ELSE Advance(w, c)

\* a timechange event reaches closure c's handler
WistiaTimeChange(c) ==
  /\ wistia.embed
  /\ listeners[c].handlers
  /\ WistiaCommit(wistiaTimeChange(VideoCtx, c, wistia),
                  videoAutoAdvanceEnabled, wistia)
  /\ UNCHANGED stored

\* an end event reaches closure c's handler
WistiaEnd(c) ==
  /\ wistia.embed
  /\ listeners[c].handlers
  /\ wistia.t = wistia.duration
  /\ WistiaCommit(wistiaEnd(VideoCtx, c), videoAutoAdvanceEnabled, wistia)
  /\ UNCHANGED stored

\* the timer of lines 159-161 ends on such a page, which isVideoPage takes
\* for a video page as long as the embed is there
WistiaReattachTimer ==
  /\ ~video.present
  /\ reattach > 0
  /\ LET again == videoAutoAdvanceEnabled /\ wistia.embed
         w == [VideoCtx EXCEPT !.reattach = @ - 1]
     IN  WistiaCommit(IF again THEN WistiaSaid(w, wistia) ELSE w,
                      videoAutoAdvanceEnabled,
                      IF again THEN tryWistiaApi(wistia) ELSE wistia)
  /\ UNCHANGED stored

\* playback of the Wistia player goes on
WistiaPlays ==
  /\ wistia.embed
  /\ wistia.t < wistia.duration
  /\ wistia' = [wistia EXCEPT !.t = IF wistia.t + TimeStep > wistia.duration
                                      THEN wistia.duration
                                      ELSE wistia.t + TimeStep]
  /\ vev' = NoVideoEvent
  /\ UNCHANGED <<runVars, scriptVars, parseVars, math, link, wo, panel,
                 videoAutoAdvanceEnabled, videoEndedListener, listeners, video,
                 videoNext, reattach, stored, disable>>

(***************************************************************************)
(* The video and the page around it.                                       *)
(***************************************************************************)
VideoHostStep(v, next) ==
  /\ video' = v
  /\ videoNext' = next
  /\ vev' = NoVideoEvent
  /\ disable' =
       [disable EXCEPT
          !.sawScheduled = @ \/ (disable.scheduled /\ isVideoPage(v)),
          !.sawFinal = @ \/ (disable.final /\ isVideoPage(v)),
          !.sawLoad = @ \/ (disable.loadTimer /\ isVideoPage(v))]
  /\ UNCHANGED <<runVars, scriptVars, parseVars, fillVars, videoAutoAdvanceEnabled,
                 videoEndedListener, listeners, reattach, stored>>

\* playback goes on
VideoPlays ==
  /\ video.present
  /\ ~video.ended
  /\ video.duration # NaN
  /\ video.currentTime < video.duration
  /\ LET t == IF video.currentTime + TimeStep > video.duration
                THEN video.duration
                ELSE video.currentTime + TimeStep
     IN  VideoHostStep([video EXCEPT !.currentTime = t], videoNext)

\* playback reaches the end of the media
VideoEnds ==
  /\ video.present
  /\ ~video.ended
  /\ video.duration # NaN
  /\ video.currentTime = video.duration
  /\ VideoHostStep([video EXCEPT !.ended = TRUE], videoNext)

\* the metadata is loaded
VideoLoads ==
  /\ video.present
  /\ video.duration = NaN
  /\ \E d \in Durations \ {NaN} :
       VideoHostStep([video EXCEPT !.duration = d], videoNext)

\* the page shows another video, or none, in place of this one, inside a
\* player or not
VideoPageChanges ==
  \E present, player \in BOOLEAN :
    VideoHostStep([NoVideo EXCEPT !.present = present, !.player = player],
                  videoNext)

\* the page's next control comes or goes
VideoNextChanges == VideoHostStep(video, ~videoNext)


(***************************************************************************)
(* The oracle's replies: fetch rejects, or an HTTP reply comes, not ok or  *)
(* ok with a message.                                                      *)
(***************************************************************************)
ParseAlphabet == {"1", "2", "0", " ", ".", "a"}

StringsUpTo(n) == UNION {[1..k -> ParseAlphabet] : k \in 0..n}

FailedReplies ==
  {[NoReply EXCEPT !.kind = "reject"], [NoReply EXCEPT !.kind = "http"]}

OkReplies(contents, reasonings) ==
  [kind : {"http"}, ok : {TRUE}, content : contents, reasoning : reasonings]

\* the replies a Run-All loop is given
LoopReplies == FailedReplies \cup OkReplies({<<"1">>, <<"a">>}, {<<>>})

\* the replies the Autofill button's solve is given
SolveReplies ==
  FailedReplies \cup OkReplies(StringsUpTo(MaxReplyLen), {<<>>, <<"2">>})

(***************************************************************************)
(* The host page on its own: it enables and disables its controls, and it  *)
(* replaces its content, whenever it likes.                                *)
(***************************************************************************)
HostStep(p) ==
  /\ page' = p
  /\ ev' = NoEvent
  /\ UNCHANGED <<isAutoRunning, status, storage, loops, single, scriptVars,
                 parseVars, fillVars, videoVars>>

HostCheck == HostStep([page EXCEPT !.check = ~page.check])

HostNext == HostStep([page EXCEPT !.next = ~page.next])

Shapes == [question : BOOLEAN, items : ItemLists]

ShowPage(no, shape) ==
  [no |-> no, question |-> shape.question, items |-> shape.items,
   check |-> FALSE, next |-> FALSE]

\* the host replaces its content in place, as a single-page application does
HostNavigate(shapes) ==
  \E shape \in shapes : HostStep(ShowPage(page.no, shape))

(***************************************************************************)
(* The Run-All loop under any host and any user.                           *)
(***************************************************************************)
StoredKeys == {<<>>, <<" ">>, <<"k">>}

\* a quiz, a quiz whose question text is not found, and no quiz
LoopShapes ==
  {[question |-> TRUE, items |-> <<"labelled", "labelled">>],
   [question |-> FALSE, items |-> <<"labelled", "labelled">>],
   [question |-> TRUE, items |-> <<>>]}

NoParse == [content |-> <<>>, reasoning |-> <<>>, n |-> 1]

NotParsed == [done |-> FALSE, value |-> Null]

InitIdle ==
  /\ isAutoRunning = FALSE
  /\ status = StatusReady
  /\ loops = [i \in LoopIds |-> NewTask]
  /\ single = NewTask
  /\ ev = NoEvent

InitNoFill ==
  /\ math = NoMath
  /\ link = NoLink
  /\ wo = NoWorkingOut
  /\ panel = NoPanel
  /\ wistia = NoWistia

InitNoVideo ==
  /\ videoAutoAdvanceEnabled = FALSE
  /\ videoEndedListener = NoListener
  /\ listeners = [c \in ListenerIds |-> NewListener]
  /\ video = NoVideo
  /\ videoNext = FALSE
  /\ reattach = 0
  /\ vev = NoVideoEvent
  /\ stored = FALSE
  /\ disable = NoDisable

Init ==
  /\ parseIn = NoParse
  /\ parseOut = NotParsed
  /\ InitIdle
  /\ InitNoFill
  /\ InitNoVideo
  /\ storage \in [apiKey : StoredKeys, model : {""}]
  /\ page \in {ShowPage(1, shape) : shape \in LoopShapes}
  /\ script = <<>>
  /\ log = <<>>

LoopStep(i, replies) ==
  \/ KeyRead(i)
  \/ ModelRead(i)
  \/ \E r \in replies : OracleReply(i, r)
  \/ ReplyBody(i)
  \/ Timer500(i)
  \/ \E timedOut \in BOOLEAN : PollCheckTimer(i, timedOut)
  \/ Timer1200(i)
  \/ \E timedOut \in BOOLEAN : PollNextTimer(i, timedOut)
  \/ Timer2000(i)

Next ==
  \/ \E i \in LoopIds : RunAllClick(i)
  \/ \E i \in LoopIds : LoopStep(i, LoopReplies)
  \/ StopClick
  \/ HostCheck
  \/ HostNext
  \/ HostNavigate(LoopShapes)

Spec == Init /\ [][Next]_vars

(***************************************************************************)
(* One Run All click with a key stored, on any page; the host then shows   *)
(* a quiz, or a page with one list item, with one button in two list       *)
(* items, or with no answer list.                                          *)
(***************************************************************************)
RunAnyShapes ==
  {[question |-> TRUE, items |-> items] :
     items \in {<<"labelled", "labelled">>, <<"labelled">>,
                <<"labelled", "nobutton">>, <<>>}}

InitRunAny ==
  /\ parseIn = NoParse
  /\ parseOut = NotParsed
  /\ InitIdle
  /\ InitNoFill
  /\ InitNoVideo
  /\ storage = [apiKey |-> <<"k">>, model |-> ""]
  /\ page \in {ShowPage(1, shape) : shape \in Shapes}
  /\ script = <<>>
  /\ log = <<>>

NextRunAny ==
  \/ RunAllClick(1)
  \/ LoopStep(1, OkReplies({<<"1">>}, {<<>>}))
  \/ HostCheck
  \/ HostNext
  \/ HostNavigate(RunAnyShapes)

SpecRunAny == InitRunAny /\ [][NextRunAny]_vars

(***************************************************************************)
(* One Run All click on a quiz, while the user saves keys and models in    *)
(* the popup.                                                              *)
(***************************************************************************)
SavedKeys == {<<"k">>, <<"j">>}

SavedModels == {"", "m1", "m2"}

\* save.onclick of the popup: the key is trimmed before it is stored
SaveConfig(apiKey, model) ==
  /\ storage' = [apiKey |-> Trim(apiKey), model |-> model]
  /\ ev' = NoEvent
  /\ UNCHANGED <<isAutoRunning, status, page, loops, single, scriptVars,
                 parseVars, fillVars, videoVars>>

InitConfig ==
  /\ parseIn = NoParse
  /\ parseOut = NotParsed
  /\ InitIdle
  /\ InitNoFill
  /\ InitNoVideo
  /\ storage \in [apiKey : SavedKeys, model : SavedModels]
  /\ page = ShowPage(1, [question |-> TRUE, items |-> <<"labelled", "labelled">>])
  /\ script = <<>>
  /\ log = <<>>

NextConfig ==
  \/ RunAllClick(1)
  \/ LoopStep(1, OkReplies({<<"1">>}, {<<>>}))
  \/ HostCheck
  \/ HostNext
  \/ \E apiKey \in SavedKeys, model \in SavedModels : SaveConfig(apiKey, model)

SpecConfig == InitConfig /\ [][NextConfig]_vars

(***************************************************************************)
(* One Run All click with a key stored on a page whose Check Answer        *)
(* control is never enabled.                                               *)
(***************************************************************************)
\* the loop without the pause that follows a check click
NextNoCheck ==
  \/ RunAllClick(1)
  \/ KeyRead(1)
  \/ ModelRead(1)
  \/ \E r \in OkReplies({<<"1">>}, {<<>>}) : OracleReply(1, r)
  \/ ReplyBody(1)
  \/ Timer500(1)
  \/ \E timedOut \in BOOLEAN : PollCheckTimer(1, timedOut)
  \/ \E timedOut \in BOOLEAN : PollNextTimer(1, timedOut)
  \/ Timer2000(1)
  \/ HostNext
  \/ HostNavigate(RunAnyShapes)

SpecNoCheck == InitRunAny /\ [][NextNoCheck]_vars

(***************************************************************************)
(* One solve at a time, by the Autofill button, on any page.               *)
(***************************************************************************)
InitSolve ==
  /\ parseIn = NoParse
  /\ parseOut = NotParsed
  /\ InitIdle
  /\ InitNoFill
  /\ InitNoVideo
  /\ storage \in [apiKey : StoredKeys, model : {""}]
  /\ page \in {ShowPage(1, shape) : shape \in Shapes}
  /\ script = <<>>
  /\ log = <<>>

NextSolve ==
  \/ AutofillClick
  \/ AutofillKeyRead
  \/ AutofillModelRead
  \/ \E r \in SolveReplies : AutofillReply(r)
  \/ AutofillBody
  \/ HostNavigate(Shapes)

SpecSolve == InitSolve /\ [][NextSolve]_vars

(***************************************************************************)
(* One Run All click on a scripted quiz: ScriptedQuizPages pages, each a   *)
(* quiz the extraction succeeds on, whose Check Answer control is enabled  *)
(* by the answer click and whose next control is enabled by the check      *)
(* click, then a last page that never shows a next control.  The host      *)
(* reacts to a click before the loop's next timer ends, the oracle answers *)
(* every request with a number of a choice, and nobody clicks Stop.        *)
(***************************************************************************)
TwoButtons == [1..2 -> {"labelled", "blank"}]

SolvableShapes ==
  {[question |-> TRUE, items |-> items, hasNext |-> TRUE] :
     items \in {b \in TwoButtons : \E j \in 1..2 : b[j] = "labelled"}}

\* no quiz; a quiz like the others; a quiz without question text; a quiz
\* whose labels are all empty
LastShapes ==
  {[question |-> TRUE, items |-> <<>>, hasNext |-> FALSE],
   [question |-> TRUE, items |-> <<"labelled", "labelled">>, hasNext |-> FALSE],
   [question |-> FALSE, items |-> <<"labelled", "labelled">>, hasNext |-> FALSE],
   [question |-> TRUE, items |-> <<"blank", "blank">>, hasNext |-> FALSE]}

Scripts ==
  {quiz \o <<last>> :
     quiz \in [1..ScriptedQuizPages -> SolvableShapes], last \in LastShapes}

\* the replies that name one of n choices
ValidReplies(n) ==
  {r \in OkReplies({<<"1">>, <<"2">>}, {<<>>}) :
     ParseAnswer(r.content, r.reasoning, n) # Null}

InitScripted ==
  /\ parseIn = NoParse
  /\ parseOut = NotParsed
  /\ InitIdle
  /\ InitNoFill
  /\ InitNoVideo
  /\ storage = [apiKey |-> <<"k">>, model |-> ""]
  /\ script \in Scripts
  /\ page = ShowPage(1, script[1])
  /\ log = <<>>

\* the scripted host's reaction to the click the last step made
ScriptReact ==
  /\ ev.kind \in ClickKinds
  /\ page' =
       CASE ev.kind = "answer" -> [page EXCEPT !.check = TRUE]
         [] ev.kind = "check" -> [page EXCEPT !.next = script[page.no].hasNext]
         [] ev.kind = "next" ->
              IF page.no < Len(script)
                THEN ShowPage(page.no + 1, script[page.no + 1])
                ELSE page
  /\ ev' = NoEvent
  /\ UNCHANGED <<isAutoRunning, status, storage, loops, single, scriptVars,
                 parseVars, fillVars, videoVars>>

NextScripted ==
  \/ ScriptReact
  \/ /\ ev.kind \notin ClickKinds
     /\ \/ RunAllClick(1)
        \/ LoopStep(1, ValidReplies(loops[1].n))

SpecScripted == InitScripted /\ [][NextScripted]_vars

(***************************************************************************)
(* The parse on its own: every short reply, and the replies the            *)
(* documentation names.                                                    *)
(***************************************************************************)
Str_1_or_maybe_2 ==
  <<"1", " ", "o", "r", " ", "m", "a", "y", "b", "e", " ", "2">>

Str_final_answer_is_2 ==
  <<"f", "i", "n", "a", "l", " ", "a", "n", "s", "w", "e", "r", " ",
    "i", "s", " ", "2", ".">>

ParseInputs ==
  [content : StringsUpTo(MaxContentLen),
   reasoning : StringsUpTo(MaxReasoningLen),
   n : 1..MaxChoices]
  \cup
  [content : {<<>>, Str_1_or_maybe_2, <<"1", "0">>, <<"1", "2", "3">>},
   reasoning : {<<>>, Str_final_answer_is_2},
   n : {3}]

InitParse ==
  /\ parseIn \in ParseInputs
  /\ parseOut = NotParsed
  /\ InitIdle
  /\ InitNoFill
  /\ InitNoVideo
  /\ storage = [apiKey |-> <<>>, model |-> ""]
  /\ page = ShowPage(1, [question |-> FALSE, items |-> <<>>])
  /\ script = <<>>
  /\ log = <<>>

ParseReply ==
  /\ ~parseOut.done
  /\ parseOut' =
       [done |-> TRUE,
        value |-> ParseAnswer(parseIn.content, parseIn.reasoning, parseIn.n)]
  /\ UNCHANGED <<parseIn, runVars, scriptVars, videoVars, fillVars>>

NextParse == ParseReply

SpecParse == InitParse /\ [][NextParse]_vars

(***************************************************************************)
(* The stored flag: its load by setupPanelListeners and                    *)
(* checkVideoAutoAdvanceDisable.                                           *)
(***************************************************************************)
\* a step of the checks: d the checks under way, enabled and flag the
\* module's flag and the stored one, off: the step switched the flag off
DisableStep(d, enabled, flag, off) ==
  /\ disable' = d
  /\ videoAutoAdvanceEnabled' = enabled
  /\ stored' = flag
  /\ vev' = [NoVideoEvent EXCEPT !.off = off]
  /\ UNCHANGED <<runVars, scriptVars, parseVars, fillVars, videoEndedListener, listeners,
                 video, videoNext, reattach>>

\* checkVideoAutoAdvanceDisable is called and not throttled, lines 876-879
DisableCheckCalled ==
  /\ ~disable.throttle
  /\ disable.gets < MaxPending
  /\ DisableStep([disable EXCEPT !.throttle = TRUE, !.gets = @ + 1],
                 videoAutoAdvanceEnabled, stored, "no")

\* the 800 ms timer of line 878 ends
ThrottleEnds ==
  /\ disable.throttle
  /\ DisableStep([disable EXCEPT !.throttle = FALSE],
                 videoAutoAdvanceEnabled, stored, "no")

\* the storage read of line 879 is answered: lines 880-884
DisableFirstRead ==
  /\ disable.gets > 0
  /\ LET d == [disable EXCEPT !.gets = @ - 1]
     IN  DisableStep(IF stored /\ ~isVideoPage(video) /\ ~d.scheduled
                       THEN [d EXCEPT !.scheduled = TRUE,
                                      !.sawScheduled = FALSE]
                       ELSE d,
                     videoAutoAdvanceEnabled, stored, "no")

\* the 2.5 s timer of line 884 ends: lines 885-886
DisableTimer ==
  /\ disable.scheduled
  /\ ~disable.final
  /\ DisableStep([disable EXCEPT !.scheduled = FALSE, !.final = TRUE,
                                 !.sawFinal = disable.sawScheduled],
                 videoAutoAdvanceEnabled, stored, "no")

\* the stored flag is on and the page shows no video, line 887
disableDueAnyPage(flag, v) == flag

disableDue(flag, v) == flag /\ ~isVideoPage(v)

\* the storage read of line 886 is answered: lines 887-899
DisableFinalRead ==
  /\ disable.final
  /\ LET off == disableDue(stored, video)
     IN  DisableStep([disable EXCEPT !.final = FALSE],
                     IF off THEN FALSE ELSE videoAutoAdvanceEnabled,
                     IF off THEN FALSE ELSE stored,
                     IF off THEN "check" ELSE "no")

\* the storage read of line 840 is answered: lines 841-860 (the dash of the
\* status of line 858 is written as a hyphen)
FlagLoadedWith(enabled, d) ==
  LET arm == enabled /\ ~isVideoPage(video)
      setup == enabled /\ isVideoPage(video)
      w == IF setup
             THEN [setupVideoAutoAdvance(VideoCtx, FreeListener, enabled, video)
                     EXCEPT !.said = Append(@, "Auto-advance on - video will start")]
             ELSE VideoCtx
  IN  /\ arm => ~disable.loadTimer
      /\ setup => FreeListener # 0
      /\ VideoCommit(w, enabled)
      /\ disable' = IF arm
                      THEN [d EXCEPT !.loadTimer = TRUE, !.sawLoad = FALSE]
                      ELSE d
      /\ UNCHANGED stored

\* the read and its callback with nothing in between
FlagLoaded == FlagLoadedWith(stored, disable)

\* setupPanelListeners sends the storage read of line 840
FlagReadSent ==
  /\ disable.load = "none"
  /\ DisableStep([disable EXCEPT !.load = "sent"],
                 videoAutoAdvanceEnabled, stored, "no")

\* the storage serves the read: the flag as stored at this moment
FlagReadServed ==
  /\ disable.load = "sent"
  /\ DisableStep([disable EXCEPT !.load = "served", !.loadValue = stored],
                 videoAutoAdvanceEnabled, stored, "no")

\* the callback of line 840 runs with the flag the storage served
FlagReadAnswered ==
  /\ disable.load = "served"
  /\ FlagLoadedWith(disable.loadValue,
                    [disable EXCEPT !.load = "none", !.loadValue = FALSE])

\* the 2.5 s timer of line 843 ends: lines 844-851
LoadTimer ==
  /\ disable.loadTimer
  /\ LET off == ~isVideoPage(video)
     IN  DisableStep([disable EXCEPT !.loadTimer = FALSE],
                     IF off THEN FALSE ELSE videoAutoAdvanceEnabled,
                     IF off THEN FALSE ELSE stored,
                     IF off THEN "load" ELSE "no")

(***************************************************************************)
(* The watchdog of a native video, under a free video and user.           *)
(***************************************************************************)
InitVideo ==
  /\ parseIn = NoParse
  /\ parseOut = NotParsed
  /\ InitIdle
  /\ InitNoFill
  /\ storage = [apiKey |-> <<>>, model |-> ""]
  /\ page = ShowPage(1, [question |-> FALSE, items |-> <<>>])
  /\ script = <<>>
  /\ log = <<>>
  /\ videoAutoAdvanceEnabled = FALSE
  /\ videoEndedListener = NoListener
  /\ listeners = [c \in ListenerIds |-> NewListener]
  /\ video \in Videos
  /\ videoNext \in BOOLEAN
  /\ reattach = 0
  /\ vev = NoVideoEvent
  /\ stored = FALSE
  /\ disable = NoDisable

NextVideo ==
  \/ VideoToggleClick
  \/ \E c \in ListenerIds : PollTick(c)
  \/ \E c \in ListenerIds : TimeUpdate(c)
  \/ \E c \in ListenerIds : Ended(c)
  \/ ReattachTimer
  \/ VideoPlays
  \/ VideoEnds
  \/ VideoLoads
  \/ VideoPageChanges
  \/ VideoNextChanges

SpecVideo == InitVideo /\ [][NextVideo]_vars

(***************************************************************************)
(* The watchdog and its toggle on a page with a video element whose        *)
(* metadata is loaded, or with a Wistia embed.                             *)
(***************************************************************************)
InitWatchdog ==
  /\ parseIn = NoParse
  /\ parseOut = NotParsed
  /\ InitIdle
  /\ storage = [apiKey |-> <<>>, model |-> ""]
  /\ page = ShowPage(1, [question |-> FALSE, items |-> <<>>])
  /\ script = <<>>
  /\ log = <<>>
  /\ videoAutoAdvanceEnabled = FALSE
  /\ videoEndedListener = NoListener
  /\ listeners = [c \in ListenerIds |-> NewListener]
  /\ videoNext \in BOOLEAN
  /\ reattach = 0
  /\ vev = NoVideoEvent
  /\ stored = FALSE
  /\ disable = NoDisable
  /\ math = NoMath
  /\ link = NoLink
  /\ wo = NoWorkingOut
  /\ panel = NoPanel
  /\ \/ /\ video \in {v \in Videos : v.present /\ v.player /\ ~v.ended
                                       /\ v.duration = MaxDuration}
        /\ wistia = NoWistia
     \/ /\ video = NoVideo
        /\ wistia \in {[NoWistia EXCEPT !.embed = TRUE, !.duration = d, !.t = t] :
                         d \in {0, MaxDuration}, t \in {0, MaxDuration - TimeStep}}

\* the toggle and the timer of lines 159-161 on a page with a video element
NativeToggleClick == video.present /\ VideoToggleClick

NativeReattachTimer == video.present /\ ReattachTimer

\* setupPanelListeners runs again (lines 867-871, 906-913) and its storage
\* read of line 840 is answered, on a page with a video element
NativeFlagLoaded == video.present /\ FlagLoaded

NextWatchdog ==
  \/ NativeToggleClick
  \/ \E c \in ListenerIds : PollTick(c)
  \/ \E c \in ListenerIds : TimeUpdate(c)
  \/ \E c \in ListenerIds : Ended(c)
  \/ NativeReattachTimer
  \/ NativeFlagLoaded
  \/ VideoPlays
  \/ VideoEnds
  \/ VideoNextChanges
  \/ WistiaToggleClick
  \/ WistiaReady
  \/ \E c \in ListenerIds : WistiaTimeChange(c)
  \/ \E c \in ListenerIds : WistiaEnd(c)
  \/ WistiaReattachTimer
  \/ WistiaPlays

SpecWatchdog == InitWatchdog /\ [][NextWatchdog]_vars

(***************************************************************************)
(* One call of setMathFieldValue, on any math field.                       *)
(***************************************************************************)
InitMath ==
  /\ parseIn = NoParse
  /\ parseOut = NotParsed
  /\ InitIdle
  /\ InitNoVideo
  /\ storage = [apiKey |-> <<>>, model |-> ""]
  /\ page = ShowPage(1, [question |-> FALSE, items |-> <<>>])
  /\ script = <<>>
  /\ log = <<>>
  /\ math \in {[NoMath EXCEPT !.field = f] : f \in MathFields}
  /\ link = NoLink
  /\ wo = NoWorkingOut
  /\ panel = NoPanel
  /\ wistia = NoWistia

NextMath ==
  \/ MathFill
  \/ MathTimer80
  \/ MathTimer120
  \/ MathFieldUpgrades

SpecMath == InitMath /\ [][NextMath]_vars

(***************************************************************************)
(* The Autofill Working Out button, on any page, with any key stored.      *)
(***************************************************************************)
WoReplies == FailedReplies \cup OkReplies({<<>>, <<" ">>, <<"x">>}, {<<>>})

InitWorkingOut ==
  /\ parseIn = NoParse
  /\ parseOut = NotParsed
  /\ InitIdle
  /\ InitNoVideo
  /\ storage \in [apiKey : StoredKeys, model : {""}]
  /\ page = ShowPage(1, [question |-> FALSE, items |-> <<>>])
  /\ script = <<>>
  /\ log = <<>>
  /\ math \in {[NoMath EXCEPT !.field = f] : f \in MathFields}
  /\ link = NoLink
  /\ wo \in {[NoWorkingOut EXCEPT !.field = f, !.question = q, !.body = b] :
               f \in BOOLEAN, q \in BOOLEAN, b \in BOOLEAN}
  /\ panel = NoPanel
  /\ wistia = NoWistia

NextWorkingOut ==
  \/ WorkingOutClick
  \/ WoKeyRead
  \/ WoModelRead
  \/ \E r \in WoReplies : WoReply(r)
  \/ WoBody
  \/ MathTimer80
  \/ MathTimer120
  \/ MathFieldUpgrades
  \/ WoFilled

SpecWorkingOut == InitWorkingOut /\ [][NextWorkingOut]_vars

(***************************************************************************)
(* The three buttons that need a key, on a page that is a quiz and has a   *)
(* math field, while the user saves and clears the key in the popup.       *)
(***************************************************************************)
InitKey ==
  /\ parseIn = NoParse
  /\ parseOut = NotParsed
  /\ InitIdle
  /\ InitNoVideo
  /\ storage \in [apiKey : StoredKeys, model : {""}]
  /\ page = ShowPage(1, [question |-> TRUE, items |-> <<"labelled", "labelled">>])
  /\ script = <<>>
  /\ log = <<>>
  /\ math = [NoMath EXCEPT !.field = [id |-> TRUE, api |-> {"setValue"},
                                      transfer |-> TRUE]]
  /\ link = NoLink
  /\ wo = [NoWorkingOut EXCEPT !.field = TRUE, !.question = TRUE]
  /\ panel = NoPanel
  /\ wistia = NoWistia

NextKey ==
  \/ RunAllClick(1)
  \/ LoopStep(1, OkReplies({<<"1">>}, {<<>>}))
  \/ HostCheck
  \/ HostNext
  \/ AutofillClick
  \/ AutofillKeyRead
  \/ AutofillModelRead
  \/ \E r \in OkReplies({<<"1">>}, {<<>>}) : AutofillReply(r)
  \/ AutofillBody
  \/ WorkingOutClick
  \/ WoKeyRead
  \/ WoModelRead
  \/ \E r \in OkReplies({<<"x">>}, {<<>>}) : WoReply(r)
  \/ WoBody
  \/ MathTimer80
  \/ MathTimer120
  \/ WoFilled
  \/ \E apiKey \in StoredKeys : SaveConfig(apiKey, "")

SpecKey == InitKey /\ [][NextKey]_vars

(***************************************************************************)
(* One Run All click with a key stored, under any host and with Stop       *)
(* clicks, where every await of the loop ends: a timer that was set fires, *)
(* a storage read is answered, and every oracle request settles.           *)
(***************************************************************************)
LiveShapes ==
  {[question |-> TRUE, items |-> <<"labelled", "labelled">>],
   [question |-> TRUE, items |-> <<>>]}

InitLive ==
  /\ parseIn = NoParse
  /\ parseOut = NotParsed
  /\ InitIdle
  /\ InitNoFill
  /\ InitNoVideo
  /\ storage = [apiKey |-> <<"k">>, model |-> ""]
  /\ page \in {ShowPage(1, shape) : shape \in LiveShapes}
  /\ script = <<>>
  /\ log = <<>>

\* the oracle's request fails, or it answers with the first choice
LiveReplies ==
  {[NoReply EXCEPT !.kind = "reject"]} \cup OkReplies({<<"1">>}, {<<>>})

\* the steps of the loop on pages whose Check Answer control is never
\* enabled: each is an await of the loop that ends
LiveLoopStep ==
  \/ KeyRead(1)
  \/ ModelRead(1)
  \/ \E r \in LiveReplies : OracleReply(1, r)
  \/ ReplyBody(1)
  \/ Timer500(1)
  \/ \E timedOut \in BOOLEAN : PollCheckTimer(1, timedOut)
  \/ \E timedOut \in BOOLEAN : PollNextTimer(1, timedOut)
  \/ Timer2000(1)

NextLive ==
  \/ RunAllClick(1)
  \/ LiveLoopStep
  \/ StopClick
  \/ HostNext
  \/ HostNavigate(LiveShapes)

\* the loop's task has at most one step enabled at a time, the one its pc
\* names, so this is fairness for each await of the loop: a timer that was
\* set fires, a storage read is answered, a request settles
SpecLive == InitLive /\ [][NextLive]_vars /\ WF_vars(LiveLoopStep)

(***************************************************************************)
(* One call of clickNextLink, on any control and page.                     *)
(***************************************************************************)
InitNextLink ==
  /\ parseIn = NoParse
  /\ parseOut = NotParsed
  /\ InitIdle
  /\ InitNoVideo
  /\ storage = [apiKey |-> <<>>, model |-> ""]
  /\ page = ShowPage(1, [question |-> FALSE, items |-> <<>>])
  /\ script = <<>>
  /\ log = <<>>
  /\ math = NoMath
  /\ link \in {[NoLink EXCEPT !.in = in] : in \in LinkInputs}
  /\ wo = NoWorkingOut
  /\ panel = NoPanel
  /\ wistia = NoWistia

NextNextLink == ClickNextLinkCall

SpecNextLink == InitNextLink /\ [][NextNextLink]_vars

(***************************************************************************)
(* The stored flag under a free page and user.                             *)
(***************************************************************************)
InitDisable ==
  /\ parseIn = NoParse
  /\ parseOut = NotParsed
  /\ InitIdle
  /\ InitNoFill
  /\ storage = [apiKey |-> <<>>, model |-> ""]
  /\ page = ShowPage(1, [question |-> FALSE, items |-> <<>>])
  /\ script = <<>>
  /\ log = <<>>
  /\ videoAutoAdvanceEnabled = FALSE
  /\ videoEndedListener = NoListener
  /\ listeners = [c \in ListenerIds |-> NewListener]
  /\ video \in {[NoVideo EXCEPT !.present = present, !.player = player] :
                  present, player \in BOOLEAN}
  /\ videoNext = FALSE
  /\ reattach = 0
  /\ vev = NoVideoEvent
  /\ stored \in BOOLEAN
  /\ disable = NoDisable

NextDisable ==
  \/ DisableCheckCalled
  \/ ThrottleEnds
  \/ DisableFirstRead
  \/ DisableTimer
  \/ DisableFinalRead
  \/ FlagLoaded
  \/ LoadTimer
  \/ VideoToggleClick
  \/ VideoPageChanges

SpecDisable == InitDisable /\ [][NextDisable]_vars

(***************************************************************************)
(* The panel: createPanel, showPanel, hidePanel and their callers.  panel  *)
(* is [made: the module's variable is set; elements: the panel elements    *)
(* created; attached: those in the document; hidden: display is 'none'].   *)
(***************************************************************************)
\* a variant of createPanel without the test of line 636
createPanelAlways(pn) ==
  [pn EXCEPT !.made = TRUE, !.elements = @ + 1, !.attached = @ + 1]

\* createPanel, lines 635-738
createPanel(pn) ==
  IF pn.made
    THEN pn
    ELSE [pn EXCEPT !.made = TRUE, !.elements = @ + 1, !.attached = @ + 1]

\* showPanel, lines 740-752
showPanel(pn) == [createPanel(pn) EXCEPT !.hidden = FALSE]

\* hidePanel, lines 754-756
hidePanel(pn) == IF pn.made THEN [pn EXCEPT !.hidden = TRUE] ELSE pn

\* checkVideoAutoAdvanceDisable up to its storage read, lines 877-880
checkDisableCalled(d) ==
  IF d.throttle THEN d ELSE [d EXCEPT !.throttle = TRUE, !.gets = @ + 1]

\* setupPanelListeners, lines 758-864, for the flag: the storage read of
\* line 840 is sent (a read already under way stands for both)
setupPanelListeners(d) ==
  [d EXCEPT !.load = IF @ = "none" THEN "sent" ELSE @]

\* isQuizPage() || isVideoPage() || isWorkingOutPage() of lines 909 and 925,
\* on pages without a math field
SupportedPage == isQuizPage(page) \/ isVideoPage(video)

\* runInit on a document with a body, lines 906-913
runInit(pn, d) ==
  IF SupportedPage
    THEN <<showPanel(pn), setupPanelListeners(checkDisableCalled(d))>>
    ELSE <<pn, checkDisableCalled(d)>>

PanelStep(pn, d) ==
  /\ panel' = pn
  /\ disable' = d
  /\ vev' = NoVideoEvent
  /\ UNCHANGED <<runVars, scriptVars, parseVars, math, link, wo, wistia,
                 videoAutoAdvanceEnabled, videoEndedListener, listeners, video,
                 videoNext, reattach, stored>>

\* the popup's showPanel message arrives, lines 867-872
ShowPanelMessage ==
  PanelStep(showPanel(panel), setupPanelListeners(disable))

\* runInit is called on load or by the timer of lines 915-918
RunInitCalled ==
  /\ disable.throttle \/ disable.gets < MaxPending
  /\ PanelStep(runInit(panel, disable)[1], runInit(panel, disable)[2])

\* the callback of the body's MutationObserver, lines 923-926
ObserverCallback ==
  /\ disable.throttle \/ disable.gets < MaxPending
  /\ LET d == checkDisableCalled(disable)
     IN  IF SupportedPage /\ ~panel.made
           THEN PanelStep(runInit(panel, d)[1], runInit(panel, d)[2])
           ELSE PanelStep(panel, d)

\* the panel's close button is clicked, line 765
CloseClick ==
  /\ panel.made
  /\ panel.attached > 0
  /\ ~panel.hidden
  /\ PanelStep(hidePanel(panel), disable)

\* the host replaces the content of the body and the panel with it
HostRemovesPanel ==
  /\ panel.attached > 0
  /\ PanelStep([panel EXCEPT !.attached = 0], disable)

InitPanel ==
  /\ parseIn = NoParse
  /\ parseOut = NotParsed
  /\ InitIdle
  /\ InitNoFill
  /\ videoAutoAdvanceEnabled = FALSE
  /\ videoEndedListener = NoListener
  /\ listeners = [c \in ListenerIds |-> NewListener]
  /\ video = NoVideo
  /\ videoNext = FALSE
  /\ reattach = 0
  /\ vev = NoVideoEvent
  /\ stored \in BOOLEAN
  /\ disable = NoDisable
  /\ storage = [apiKey |-> <<>>, model |-> ""]
  /\ page \in {ShowPage(1, shape) : shape \in LiveShapes}
  /\ script = <<>>
  /\ log = <<>>

NextPanel ==
  \/ ObserverCallback
  \/ RunInitCalled
  \/ ShowPanelMessage
  \/ CloseClick
  \/ HostRemovesPanel
  \/ HostNavigate(LiveShapes)
  \/ ThrottleEnds
  \/ DisableFirstRead
  \/ DisableTimer
  \/ DisableFinalRead
  \/ FlagReadServed
  \/ FlagReadAnswered
  \/ LoadTimer

SpecPanel == InitPanel /\ [][NextPanel]_vars

(***************************************************************************)
(* The flag in memory and in storage: setupPanelListeners has just sent    *)
(* its read; the user toggles, the checks run, the page changes.           *)
(***************************************************************************)
InitFlag ==
  /\ parseIn = NoParse
  /\ parseOut = NotParsed
  /\ InitIdle
  /\ InitNoFill
  /\ storage = [apiKey |-> <<>>, model |-> ""]
  /\ page = ShowPage(1, [question |-> FALSE, items |-> <<>>])
  /\ script = <<>>
  /\ log = <<>>
  /\ videoAutoAdvanceEnabled = FALSE
  /\ videoEndedListener = NoListener
  /\ listeners = [c \in ListenerIds |-> NewListener]
  /\ video \in {[NoVideo EXCEPT !.present = present, !.player = player] :
                  present, player \in BOOLEAN}
  /\ videoNext = FALSE
  /\ reattach = 0
  /\ vev = NoVideoEvent
  /\ stored \in BOOLEAN
  /\ disable = [NoDisable EXCEPT !.load = "sent"]

NextFlag ==
  \/ FlagReadSent
  \/ FlagReadServed
  \/ FlagReadAnswered
  \/ LoadTimer
  \/ VideoToggleClick
  \/ DisableCheckCalled
  \/ ThrottleEnds
  \/ DisableFirstRead
  \/ DisableTimer
  \/ DisableFinalRead
  \/ VideoPageChanges

SpecFlag == InitFlag /\ [][NextFlag]_vars

(***************************************************************************)
(* Properties of the Run-All loop, under Spec.                             *)
(***************************************************************************)
LiveLoops == {i \in LoopIds : loops[i].pc \in LivePcs}

\* C1: at most one Run-All loop is live at any time: never are two runLoop
\* instances started by runAllQuestions both still executing.
C1_AtMostOneLoopLive == Cardinality(LiveLoops) <= 1

\* C2: once Stop has been clicked during a Run-All run, that run clicks no
\* answer button afterwards, whatever step it was suspended in.
C2_NoAnswerClickAfterStop ==
  ~(ev.kind = "answer" /\ ev.by \in LoopIds /\ loops[ev.by].stopReq)

\* C10: after Stop has been clicked during a Run-All run, the run clicks
\* neither the check-answer control nor the next control: it does no step
\* of the iteration beyond the one it was suspended in.
C10_NoCheckOrNextClickAfterStop ==
  ~(ev.kind \in {"check", "next"} /\ ev.by \in LoopIds /\ loops[ev.by].stopReq)

LastSaid(e) == IF e.said = <<>> THEN "" ELSE e.said[Len(e.said)]

\* C4: every step in which a Run-All loop leaves its body, by whichever
\* exit, leaves isAutoRunning false and 'Ready' as the last status the loop
\* reported, which is the status shown.
C4_ExitResetsAndReportsReady ==
  [][\A i \in LoopIds :
       loops[i].pc # "done" /\ loops'[i].pc = "done"
         => /\ ~isAutoRunning'
            /\ LastSaid(ev') = StatusReady
            /\ status' = StatusReady]_vars

\* a loop has left its body after waitForNextButton found no next control
C4_Witness ==
  \E i \in LoopIds :
    /\ loops[i].pc = "done"
    /\ ~isAutoRunning
    /\ ev.said = <<StatusComplete, StatusReady>>

FailureStatuses ==
  {StoppedMsg(ErrNoExtract), StoppedMsg(ErrInvalid), ErrorMsg(ErrApi)}

SaidFailure(e) == \E j \in 1..Len(e.said) : e.said[j] \in FailureStatuses

\* C9: a failure inside a Run-All iteration (the extraction is empty, the
\* oracle request throws, the oracle answer is null) halts the loop: the
\* step that reports it sends no request and clicks nothing and ends the
\* loop, and a loop that has ended sends no request and clicks nothing.
C9_FailureHaltsLoop ==
  [][\A i \in LoopIds :
       /\ (loops'[i] # loops[i] /\ SaidFailure(ev'))
            => loops'[i].pc = "done" /\ ev'.kind = "none"
       /\ loops[i].pc = "done"
            => loops'[i] = loops[i] /\ ~(ev'.kind # "none" /\ ev'.by = i)]_vars

\* a loop has ended on an oracle answer that names no choice
C9_Witness ==
  \E i \in LoopIds :
    /\ loops[i].pc = "done"
    /\ ev.said = <<StoppedMsg(ErrInvalid), StatusReady>>

\* loop i makes a click or sends a request in this step
Does(i, kind) == ev'.kind = kind /\ ev'.by = i /\ loops'[i] # loops[i]

\* loop i comes to pc in this step
Enters(i, pc) == loops[i].pc # pc /\ loops'[i].pc = pc

\* C11: within a Run-All run the steps of a question follow each other
\* strictly: the request follows the extraction, the answer click follows
\* the reply, the check click follows the answer click and its pause, the
\* next click follows the check click and its pause (or the wait for the
\* check control), and the extraction of the following question starts only
\* when the pause after the next click is over.
C11_StrictSequence ==
  [][\A i \in LoopIds :
       /\ Enters(i, "getModel") => loops[i].pc \in {"checkKey", "wait2000"}
       /\ Does(i, "request") => loops[i].pc = "getModel" /\ loops'[i].pc = "fetch"
       /\ Enters(i, "fetch") => Does(i, "request")
       /\ Enters(i, "json") => loops[i].pc = "fetch"
       /\ Does(i, "answer") => loops[i].pc = "json" /\ loops'[i].pc = "wait500"
       /\ Enters(i, "wait500") => Does(i, "answer")
       /\ Enters(i, "pollCheck") => loops[i].pc = "wait500"
       /\ Does(i, "check")
            => loops[i].pc \in {"wait500", "pollCheck"} /\ loops'[i].pc = "wait1200"
       /\ Enters(i, "wait1200") => Does(i, "check")
       /\ Enters(i, "pollNext") => loops[i].pc \in {"pollCheck", "wait1200"}
       /\ Does(i, "next")
            => /\ loops[i].pc \in {"pollCheck", "wait1200", "pollNext"}
               /\ loops'[i].pc = "wait2000"
       /\ Enters(i, "wait2000") => Does(i, "next")]_vars

\* a loop has clicked next after its check click and is in the pause
C11_Witness ==
  /\ ev.kind = "next"
  /\ ev.by \in LoopIds
  /\ loops[ev.by].pc = "wait2000"
  /\ page.check

(***************************************************************************)
(* Properties of the parse, under SpecParse.  A token is a maximal run of  *)
(* letters, digits and underscores; an integer token is a token that is a  *)
(* decimal numeral without a leading zero.                                 *)
(***************************************************************************)
RECURSIVE TokensOf(_, _)
\* the tokens of s, cur being the token under way
TokensOf(s, cur) ==
  IF s = <<>> THEN (IF cur = <<>> THEN <<>> ELSE <<cur>>)
  ELSE IF IsWordChar(Head(s)) THEN TokensOf(Tail(s), Append(cur, Head(s)))
  ELSE (IF cur = <<>> THEN <<>> ELSE <<cur>>) \o TokensOf(Tail(s), <<>>)

IsNumeral(tok) ==
  /\ \A j \in 1..Len(tok) : tok[j] \in Digits
  /\ tok[1] # "0"

RECURSIVE NumeralValue(_)
NumeralValue(tok) ==
  IF tok = <<>> THEN 0
  ELSE 10 * NumeralValue(SubSeq(tok, 1, Len(tok) - 1)) + DigitVal(tok[Len(tok)])

\* the values of the integer tokens of the content, then of the reasoning,
\* that are in 1..n
InRangeTokens(content, reasoning, n) ==
  LET toks == TokensOf(content, <<>>) \o TokensOf(reasoning, <<>>)
      nums == SelectSeq(toks, IsNumeral)
      vals == [j \in 1..Len(nums) |-> NumeralValue(nums[j])]
  IN  SelectSeq(vals, LAMBDA v : v \in 1..n)

LastInRangeToken(content, reasoning, n) ==
  LET vals == InRangeTokens(content, reasoning, n)
  IN  IF vals = <<>> THEN Null ELSE vals[Len(vals)]

\* C6: the parse returns the last integer token in 1..N of the content
\* followed by the reasoning, and null when there is none: a token outside
\* 1..N is never returned nor cut into one inside.  Content "" with a
\* reasoning that names 2 gives 2 for N = 3, content "1 or maybe 2" gives 2,
\* content "10" gives null for N = 3.
C6_ParseReturnsLastInRangeToken ==
  parseOut.done =>
    /\ parseOut.value
         = LastInRangeToken(parseIn.content, parseIn.reasoning, parseIn.n)
    /\ (parseIn = [content |-> <<>>, reasoning |-> Str_final_answer_is_2, n |-> 3])
         => parseOut.value = 2
    /\ (parseIn = [content |-> Str_1_or_maybe_2, reasoning |-> <<>>, n |-> 3])
         => parseOut.value = 2
    /\ (parseIn = [content |-> <<"1", "0">>, reasoning |-> <<>>, n |-> 3])
         => parseOut.value = Null

\* "1 or maybe 2" has been parsed
C6_Witness ==
  /\ parseOut.done
  /\ parseIn = [content |-> Str_1_or_maybe_2, reasoning |-> <<>>, n |-> 3]
  /\ parseOut.value = 2

(***************************************************************************)
(* Properties of solveCurrentQuestion, under SpecSolve.                    *)
(***************************************************************************)
\* what callGroqAPI returns to the solve of task t
OracleResult(t) == ParseAnswer(t.resp.content, t.resp.reasoning, t.n)

\* the solve of the Autofill task gets the oracle's result in this step
SolveGetsResult == single.pc = "json" /\ single'.pc # "json" /\ single.resp.ok

\* C5: when the extraction has N >= 1 answer buttons and the oracle's result
\* is k with 1 <= k <= N, the solve clicks the k-th extracted answer button,
\* once, and no other, and returns success with index k; it clicks an
\* answer button in no other step.
C5_ClicksKthButton ==
  [][/\ (SolveGetsResult /\ OracleResult(single) \in 1..Len(single.buttons))
          => /\ ev' = [AnswerClick(SingleId,
                                   single.buttons[OracleResult(single)],
                                   OracleResult(single))
                         EXCEPT !.said = <<SelectedMsg(OracleResult(single))>>]
             /\ single'.pc = "done"
     /\ (ev'.kind = "answer" /\ single' # single) => SolveGetsResult]_vars

\* the second of two answer buttons has been clicked
C5_Witness ==
  /\ ev.kind = "answer"
  /\ ev.by = SingleId
  /\ ev.index = 2
  /\ ev.target = [page |-> page.no, li |-> 2]
  /\ ev.said = <<SelectedMsg(2)>>

\* C7: when neither the content nor the reasoning of the oracle's response
\* holds an integer in 1..N, callGroqAPI returns null, the solve reports an
\* 'Invalid API response' failure, and no answer button is clicked.
C7_NoTokenNoClick ==
  [][(SolveGetsResult
        /\ InRangeTokens(single.resp.content, single.resp.reasoning, single.n)
             = <<>>)
       => /\ OracleResult(single) = Null
          /\ ev'.kind = "none"
          /\ ev'.said = <<ErrorMsg(ErrInvalid)>>
          /\ single'.pc = "done"]_vars

\* a solve has ended on a response without a number
C7_Witness ==
  /\ single.pc = "done"
  /\ ev.kind = "none"
  /\ ev.said = <<ErrorMsg(ErrInvalid)>>

(***************************************************************************)
(* Properties of one Run All on a scripted quiz, under SpecScripted.       *)
(***************************************************************************)
\* what the log holds for page p, in order
PageLog(p) ==
  LET on == SelectSeq(log, LAMBDA e : e.page = p)
  IN  [j \in 1..Len(on) |-> on[j].kind]

Count(kind) == Len(SelectSeq(log, LAMBDA e : e.kind = kind))

LastPage == ScriptedQuizPages + 1

\* one solve/check/advance cycle
Cycle == <<StatusSolving, "answer", "check", StatusMoving, "next">>

LastShape == [question |-> script[LastPage].question, items |-> script[LastPage].items]

LastIsQuiz == isQuizPage(ShowPage(LastPage, LastShape))

LastIsSolvable ==
  /\ LastIsQuiz
  /\ LastShape.question
  /\ Len(getAnswers(ShowPage(LastPage, LastShape))) > 0

\* what the loop does on the last page, which never shows a next control
LastPageLog ==
  IF ~LastIsQuiz THEN <<StatusReady>>
  ELSE IF LastIsSolvable
    THEN <<StatusSolving, "answer", "check", StatusComplete, StatusReady>>
    ELSE <<StatusSolving, StoppedMsg(ErrNoExtract), StatusReady>>

ScriptedRunDone == loops[1].pc = "done"

\* C8 as stated: on ScriptedQuizPages solvable quiz pages followed by a page
\* without next control, whether or not that page is a quiz, the run makes
\* exactly ScriptedQuizPages solve/check/advance cycles, then reports 'Quiz
\* complete!' and resets isAutoRunning.
C8_AsStated ==
  ScriptedRunDone =>
    /\ \A p \in 1..ScriptedQuizPages : PageLog(p) = Cycle
    /\ Count("next") = ScriptedQuizPages
    /\ Count(StatusComplete) = 1
    /\ ~isAutoRunning

\* C8, amended: when the run has ended it has made exactly
\* ScriptedQuizPages solve/check/advance cycles, one on each quiz page,
\* isAutoRunning is false and 'Ready' is shown; on the last page it has
\* reported 'Quiz complete!' only if that page is a quiz it could solve,
\* after an answer click and a check click there; it has reported only
\* 'Ready' if the page is no quiz, and 'Stopped: ...' if it is a quiz the
\* extraction fails on.  Until then it has clicked next at most once a page.
C8_CyclesThenIdle ==
  /\ Count("next") <= ScriptedQuizPages
  /\ ScriptedRunDone =>
       /\ \A p \in 1..ScriptedQuizPages : PageLog(p) = Cycle
       /\ Count("next") = ScriptedQuizPages
       /\ PageLog(LastPage) = LastPageLog
       /\ Count(StatusComplete) = (IF LastIsSolvable THEN 1 ELSE 0)
       /\ ~isAutoRunning
       /\ status = StatusReady

\* the run has ended on a last page that is no quiz
C8_Witness ==
  /\ ScriptedRunDone
  /\ ~LastIsQuiz
  /\ Count("next") = ScriptedQuizPages
  /\ PageLog(LastPage) = <<StatusReady>>

(***************************************************************************)
(* Properties of the watchdog of a native video, under SpecVideo.          *)
(***************************************************************************)
\* C3: one attached native video listener calls advanceToNext at most once,
\* whatever poll ticks, timeupdate events and ended events reach it.
C3_AdvancesAtMostOnce == \A c \in ListenerIds : listeners[c].calls <= 1

LiveIntervals == {c \in ListenerIds : listeners[c].interval}

LiveHandlers == {c \in ListenerIds : listeners[c].handlers}

\* C12: whatever watchdog setups follow each other, the poll interval and
\* the timeupdate/ended handlers attached before are taken down before new
\* ones are attached: at most one poll interval and at most one pair of
\* handlers is live at any time.
C12_OneWatchdogLive ==
  /\ Cardinality(LiveIntervals) <= 1
  /\ Cardinality(LiveHandlers) <= 1

\* the step in which the read after the 2.5 s of the check is answered
FinalReadStep == disable.final /\ ~disable'.final

\* C13 as stated: the auto-disable check sets the persisted flag to false only
\* if the page remained a non-video page for the whole debounce window; if the
\* page is a video page at any moment inside the window, the check does not
\* disable the flag.
C13_AsStated ==
  [][FinalReadStep /\ vev'.off = "check" => ~disable.sawFinal]_vars

\* C13: the auto-disable check looks at the page twice, when it opens the
\* 2.5 s window and when the read after the window is answered. The window is
\* opened only with the stored flag on and no video page; the read after it
\* follows only an open window; and that read sets the stored flag and the
\* flag of the script to false exactly when the stored flag is on and the page
\* is not a video page at that moment, whatever the page was in between.
C13_DisablesOnBothEnds ==
  [][/\ ~disable.scheduled /\ disable'.scheduled
          => stored /\ ~isVideoPage(video)
     /\ ~disable.final /\ disable'.final => disable.scheduled
     /\ FinalReadStep
          => /\ vev'.off = "check" <=> stored /\ ~isVideoPage(video)
             /\ vev'.off = "check"
                  => ~stored' /\ ~videoAutoAdvanceEnabled'
             /\ vev'.off # "check"
                  => /\ stored' = stored
                     /\ videoAutoAdvanceEnabled' = videoAutoAdvanceEnabled]_vars

\* the check switched the flag off although the page was a video page inside
\* the window
C13_Witness ==
  /\ vev.off = "check"
  /\ disable.sawFinal
  /\ ~stored
  /\ ~videoAutoAdvanceEnabled
\* closure c called advanceToNext in the step
Triggered(c) == listeners'[c].calls > listeners[c].calls

\* the duration is known and positive and at most 10 seconds remain
Within10(duration, t) ==
  duration # NaN /\ duration > 0 /\ duration - t <= 10

\* C14: with auto-advance enabled, a check of the watchdog (poll tick or
\* timeupdate) that has not advanced yet triggers exactly when at most 10
\* seconds remain of a valid positive duration or the media has ended, and the
\* ended handler triggers on end-of-media; no step triggers while more than 10
\* seconds remain and the media has not ended, nor with the flag off, so an
\* unknown or zero duration triggers only on end-of-media. The condition of a
\* Wistia player is the same.
C14_TriggerCondition ==
  [][\A c \in ListenerIds :
       /\ Triggered(c)
            => /\ videoAutoAdvanceEnabled
               /\ Within10(video.duration, video.currentTime) \/ video.ended
       /\ PollTick(c) \/ TimeUpdate(c)
            => (Triggered(c) <=>
                  /\ videoAutoAdvanceEnabled
                  /\ ~listeners[c].advanced
                  /\ \/ Within10(video.duration, video.currentTime)
                     \/ video.ended)
       /\ Ended(c)
            => (Triggered(c) <=>
                  videoAutoAdvanceEnabled /\ ~listeners[c].advanced)
       /\ \A d \in Durations, t \in Times :
            WistiaNearEnd(d, t) <=> Within10(d, t)]_vars

\* the watchdog activated the next control with 10 seconds or less to go
\* and the media not ended
C14_Witness ==
  /\ vev.clicks = 1
  /\ videoAutoAdvanceEnabled
  /\ ~video.ended
  /\ video.currentTime < video.duration
  /\ Within10(video.duration, video.currentTime)
\* how many list items of the answer list hold a clickable button
ButtonItems(items) ==
  Cardinality({j \in 1..Len(items) : items[j] # "nobutton"})

FewChoices(items) == Len(items) < 2 \/ ButtonItems(items) < 2

\* the step reported 'Solving current question...': an iteration began
BodyEntered(i) ==
  /\ loops'[i] # loops[i]
  /\ \E j \in 1..Len(ev'.said) : ev'.said[j] = StatusSolving

\* C15: a page whose answer list has fewer than 2 list items, or fewer than 2
\* list items with a clickable button, is not classified as a quiz by
\* isQuizPage, and no iteration of the Run-All loop begins on it: the step
\* that evaluates the while condition on such a page ends the loop without a
\* request or a click.
C15_NoBodyWithoutQuiz ==
  [][/\ \A shape \in Shapes :
          FewChoices(shape.items) => ~isQuizPage(ShowPage(1, shape))
     /\ \A i \in LoopIds :
          /\ BodyEntered(i) => ~FewChoices(page.items)
          /\ (/\ loops[i].pc \in {"checkKey", "wait2000"}
              /\ loops'[i] # loops[i]
              /\ FewChoices(page.items))
               => /\ loops'[i].pc = "done"
                  /\ ev'.kind = "none"]_vars

\* Run All was clicked with a key stored on a page of two list items of
\* which one holds a button, and the loop ended at once
C15_Witness ==
  /\ Len(page.items) = 2
  /\ ButtonItems(page.items) = 1
  /\ loops[1].pc = "done"
  /\ ev.said = <<StatusReady>>
\* C16: getAnswerButtons returns the buttons in the order in which getAnswers
\* returns the labels: the j-th label of getAnswers is the label of the j-th
\* button of getAnswerButtons, also when a list item holds a button whose
\* label is empty.
C16_SameOrder ==
  \A j \in 1..Len(getAnswers(page)) :
    getAnswerButtons(page)[j].li = getAnswers(page)[j]
\* the writes of a call without the events: each by its kind
WriteKinds(writes) ==
  LET RECURSIVE From(_)
      From(j) ==
        IF j > Len(writes) THEN <<>>
        ELSE IF writes[j] \in {"input", "change"} THEN From(j + 1)
        ELSE IF writes[j] \in {"script", "paste"}
          THEN <<writes[j]>> \o From(j + 1)
          ELSE <<"direct">> \o From(j + 1)
  IN  From(1)

\* the three steps in the order of the claim, each where the field allows it
ThreeSteps(f) ==
  (IF f.transfer THEN <<"paste">> ELSE <<>>) \o <<"direct">>
    \o (IF f.id THEN <<"script">> ELSE <<>>)

\* C17 as stated: setMathFieldValue performs the three-step write sequence
\* (synthetic paste, direct value API, injected page script) twice, in that
\* order, the injected page script coming after the paste and the direct
\* value API.
C17_AsStated ==
  math.pc = "done"
    => WriteKinds(math.writes) = ThreeSteps(math.field) \o ThreeSteps(math.field)

\* C17: setMathFieldValue runs the injected page script first and once, for a
\* field with an id, then dispatches the synthetic paste once, where a
\* DataTransfer can be made; after 80 ms it writes through the direct value
\* API and dispatches input and change; after 120 ms more it writes through
\* the direct value API again (setValue, or the forced property write) and
\* dispatches input.  Only the direct write is made twice.
C17_WriteOrder ==
  LET kinds == WriteKinds(math.writes)
      first == (IF math.field.id THEN <<"script">> ELSE <<>>)
                 \o (IF math.field.transfer THEN <<"paste">> ELSE <<>>)
  IN  /\ math.pc = "wait80" => kinds = first
      /\ math.pc = "wait120"
           => /\ kinds = first \o <<"direct">>
              /\ SubSeq(math.writes, Len(math.writes) - 1, Len(math.writes))
                   = <<"input", "change">>
      /\ math.pc = "done"
           => /\ kinds = first \o <<"direct", "direct">>
              /\ math.writes[Len(math.writes)] = "input"
              /\ math.writes[Len(math.writes) - 1]
                   \in {"setValue", "forceSetValue"}
              /\ math.writes[Len(math.writes) - 1] = "setValue"
                   <=> "setValue" \in math.field.api

\* a call on a field with an id, for which a DataTransfer can be made, has
\* ended: it ran the script, then pasted, then wrote twice
C17_Witness ==
  /\ math.pc = "done"
  /\ math.field.id
  /\ math.field.transfer
  /\ WriteKinds(math.writes) = <<"script", "paste", "direct", "direct">>

\* the control is a hyperlink whose target is on the origin of the page
SameOriginHyperlink(in) ==
  /\ in.tag = "A"
  /\ in.href.kind # "none"
  /\ in.href.kind = "absolute" => in.href.url.origin = in.origin

\* C18 as stated: clickNextLink navigates by direct location change only when
\* the next control is a same-origin hyperlink; for every other control (a
\* button, an anchor without href, a hyperlink to a different origin) it
\* scrolls the control into view and simulates a click.
C18_AsStated ==
  link.out # NotClicked
    => /\ link.out.how = "location" => SameOriginHyperlink(link.in)
       /\ ~SameOriginHyperlink(link.in) => link.out.how = "click"

\* C18: clickNextLink navigates by direct location change exactly when the
\* next control is an anchor with a non-empty href and the origin of the
\* current page starts with "http", and then to the href resolved against
\* that origin, whatever the origin of the target; for every other control
\* it scrolls the control into view and simulates a click.
C18_LocationIffAnchorWithHref ==
  link.out # NotClicked
    => /\ link.out.how \in {"location", "click"}
       /\ link.out.how = "location"
            <=> /\ link.in.tag = "A"
                /\ link.in.href.kind \in {"rooted", "relative", "absolute"}
                /\ link.in.origin.scheme \in {"http", "https"}
       /\ link.out.how = "location"
            => /\ link.in.href.kind = "absolute"
                    => link.out.to = link.in.href.url
               /\ link.in.href.kind # "absolute"
                    => link.out.to.origin = link.in.origin

\* a hyperlink to another origin was followed by direct location change
C18_Witness ==
  /\ link.out.how = "location"
  /\ link.in.href.kind = "absolute"
  /\ link.out.to.origin # link.in.origin
\* the step in which the 2 s timer of advanceToNext ends
ReattachStep == reattach' < reattach

\* closure c is made in the step
Made(c) == ~listeners[c].made /\ listeners'[c].made

\* C19: when the delay after an advance ends, the watchdog is set up again if
\* and only if auto-advance is enabled and the page is a video page at that
\* moment: then a new listener with a poll interval is attached to the
\* page's video, and otherwise no listener and no poll interval is created.
C19_ReattachIffEnabledOnVideoPage ==
  [][ReattachStep
       => /\ (\E c \in ListenerIds : Made(c))
               <=> videoAutoAdvanceEnabled /\ video.player /\ video.present
          /\ \A c \in ListenerIds :
               /\ Made(c) => /\ listeners'[c].interval
                             /\ listeners'[c].handlers
                             /\ videoEndedListener'.id = c
               /\ ~Made(c) => /\ listeners'[c].interval => listeners[c].interval
                              /\ listeners'[c].handlers => listeners[c].handlers
          /\ ~(videoAutoAdvanceEnabled /\ video.player /\ video.present)
               => /\ listeners' = listeners
                  /\ videoEndedListener' = videoEndedListener]_vars

\* the delay ended with the flag on and a video element on a page that is
\* not a video page, and no listener was attached
C19_Witness ==
  /\ videoAutoAdvanceEnabled
  /\ video.present
  /\ ~video.player
  /\ reattach = 0
  /\ videoEndedListener = NoListener
  /\ \E c \in ListenerIds : listeners[c].calls > 0
\* C20 as stated: the configuration is read from storage before every oracle
\* call: each request of a Run-All loop carries the apiKey and the model that
\* are in storage at the time of that request.
C20_AsStated ==
  [][\A i \in LoopIds :
       Does(i, "request")
         => /\ ev'.key = storage.apiKey
            /\ ev'.model = IF storage.model = "" THEN DEFAULT_MODEL
                           ELSE storage.model]_vars

\* C20: the model is read from storage before every oracle call, so each
\* request of a Run-All loop carries the model in storage at that time (the
\* default model if none is stored); the apiKey is read once, when Run All is
\* clicked, and every request of that run carries the key read then, also
\* after another key is saved.
C20_ModelPerRequestKeyPerRun ==
  [][\A i \in LoopIds :
       /\ Does(i, "request")
            => /\ ev'.key = loops[i].apiKey
               /\ ev'.model = IF storage.model = "" THEN DEFAULT_MODEL
                              ELSE storage.model
       /\ loops[i].pc = "checkKey" /\ loops'[i].pc \in LivePcs
            => loops'[i].apiKey = storage.apiKey
       /\ loops[i].pc \in LivePcs /\ loops'[i].pc \in LivePcs
            => loops'[i].apiKey = loops[i].apiKey]_vars

\* a request went out with the model in storage and with the key of the
\* click, while storage holds the key saved since
C20_Witness ==
  /\ ev.kind = "request"
  /\ ev.by \in LoopIds
  /\ ev.model = "m2"
  /\ storage.model = "m2"
  /\ ev.key # storage.apiKey
\* loop i leaves waitForCheckAnswerEnabled without a control in this step
CheckTimesOut(i) ==
  /\ loops[i].pc = "pollCheck"
  /\ loops'[i].pc \notin {"pollCheck", "wait1200"}

\* C21: when the Check Answer control does not become enabled within the
\* polling timeout, the iteration skips the check click and goes on to poll
\* for the next control: the step in which the wait gives up clicks no Check
\* Answer, reports no error and leaves the loop in waitForNextButton (or in
\* the pause after the next click, if the next control is there at once);
\* and no polling wait makes more rounds than its timeout allows.
C21_CheckTimeoutGoesOn ==
  [][\A i \in LoopIds :
       /\ CheckTimesOut(i)
            => /\ loops'[i].pc \in {"pollNext", "wait2000"}
               /\ ev'.kind \in {"none", "next"}
               /\ ~SaidFailure(ev')
               /\ isAutoRunning' = isAutoRunning
               /\ loops'[i].pc = "wait2000" <=> page.next
       /\ loops'[i].polls <= MaxPolls]_vars

\* the loop clicked the next control of a page whose Check Answer control
\* was never enabled
C21_Witness ==
  /\ ev.kind = "next"
  /\ ev.by = 1
  /\ loops[1].pc = "wait2000"
  /\ ~page.check
\* the oracle gave the working-out task a text that is not empty
GotWorkingOut == wo.resp.ok /\ Trim(wo.resp.content) # <<>>

\* C22: working-out autofill writes the math field only after the oracle
\* returned a text that is not empty; without a math field it sends no
\* request; and when the request fails or the text is empty the field is
\* left unwritten and the run returns {success: false} with the reason, never
\* an exception.
C22_WritesOnlyWithText ==
  /\ math.writes # <<>> => GotWorkingOut /\ wo.pc \in {"fill", "done"}
  /\ ev.kind = "request" /\ ev.by = WorkingOutId => wo.field
  /\ wo.pc \in {"getModel", "fetch", "json", "fill"} => wo.field
  /\ wo.pc = "done"
       => /\ wo.ret.state \in {"ok", "fail"}
          /\ wo.ret.state = "ok" <=> GotWorkingOut /\ math.pc = "done"
          /\ wo.ret.state = "fail"
               => /\ math.writes = <<>>
                  /\ wo.ret.error \in {ErrNoField, ErrNoQuestion, ErrApi, ErrEmpty}
                  /\ wo.ret.error = ErrEmpty
                       <=> wo.resp.ok /\ Trim(wo.resp.content) = <<>>
                  /\ wo.ret.error = ErrNoField <=> ~wo.field

\* the oracle answered with blanks only: the run returned 'Empty API
\* response' and the field is unwritten
C22_Witness ==
  /\ wo.pc = "done"
  /\ wo.resp.ok
  /\ wo.resp.content = <<" ">>
  /\ wo.ret = RetFail(ErrEmpty)
  /\ math.writes = <<>>
\* runAllQuestions is called for loop i, with a key stored
CallsRunAll(i) ==
  /\ loops[i].pc = "checkKey"
  /\ loops'[i].pc # "checkKey"
  /\ HasKey(storage.apiKey)

\* C23: runAllQuestions called while isAutoRunning is true does nothing: it
\* starts no loop, sends no request, clicks nothing, reports nothing and
\* leaves isAutoRunning true.
C23_SecondRunAllIsNoOp ==
  [][\A i \in LoopIds :
       CallsRunAll(i) /\ isAutoRunning
         => /\ loops'[i].pc = "returned"
            /\ ev' = NoEvent
            /\ isAutoRunning'
            /\ status' = status
            /\ page' = page
            /\ \A j \in LoopIds \ {i} : loops'[j] = loops[j]]_vars

\* the second call returned at once while the first loop waits for its reply
C23_Witness ==
  /\ isAutoRunning
  /\ HasKey(storage.apiKey)
  /\ loops[1].pc = "fetch"
  /\ loops[2].pc = "returned"
\* C24: while videoAutoAdvanceEnabled is false no trigger of the watchdog
\* (interval tick, timeupdate, ended, Wistia timechange or end) calls
\* advanceToNext, though the listeners and the interval attached before the
\* toggle was switched off are still registered.
C24_OffMeansNoAdvance ==
  [][~videoAutoAdvanceEnabled
       => /\ \A c \in ListenerIds :
               listeners[c].made
                 => /\ listeners'[c].calls = listeners[c].calls
                    /\ listeners'[c].advanced = listeners[c].advanced
          /\ vev'.clicks = 0
          /\ \A k \in DOMAIN vev'.said :
               vev'.said[k] \notin {"Advancing to next...",
                                    "No Next button found"}]_vars

\* the toggle is off, the video has ended and a next control is there, and a
\* closure that has not advanced still has its interval and its handlers
C24_Witness ==
  /\ ~videoAutoAdvanceEnabled
  /\ video.ended
  /\ videoNext
  /\ \E c \in ListenerIds :
       /\ listeners[c].interval
       /\ listeners[c].handlers
       /\ ~listeners[c].advanced

\* the same on a Wistia page, the player past the threshold
C24_WitnessWistia ==
  /\ ~videoAutoAdvanceEnabled
  /\ WistiaNearEnd(wistia.duration, wistia.t)
  /\ videoNext
  /\ \E c \in ListenerIds : listeners[c].handlers /\ ~listeners[c].advanced
\* C25 as stated: once a trigger has found no next control, no navigation
\* happens later on that video.
C25_NoNavigationLater ==
  [][(\E c \in ListenerIds : listeners[c].failed) => vev'.clicks = 0]_vars

\* C25, for the attachment: a closure whose one-shot guard is set keeps it
\* set, has no interval running and never calls advanceToNext again; the
\* step that finds no next control clicks nothing and leaves the flag true;
\* and every click is made by a closure whose guard was not set.  A later
\* attachment (the toggle switched off and on, the flag loaded again by
\* setupPanelListeners) has a guard of its own and can navigate.
C25_NoRetryForAttachment ==
  [][/\ \A c \in ListenerIds :
          listeners[c].advanced
            => /\ listeners'[c].advanced
               /\ ~listeners'[c].interval
               /\ listeners'[c].calls = listeners[c].calls
               /\ listeners'[c].failed = listeners[c].failed
     /\ (\E k \in DOMAIN vev'.said : vev'.said[k] = "No Next button found")
          => /\ vev'.clicks = 0
             /\ videoAutoAdvanceEnabled /\ videoAutoAdvanceEnabled'
             /\ \E c \in ListenerIds :
                  ~listeners[c].advanced /\ listeners'[c].advanced
     /\ vev'.clicks > 0
          => \E c \in ListenerIds :
               ~listeners[c].advanced /\ listeners'[c].advanced]_vars

\* a closure tried and found no next control (it is still the registered
\* listener, its guard set and its interval cleared); the flag is on, the
\* video has ended and a next control is there now
C25_Witness ==
  /\ videoAutoAdvanceEnabled
  /\ videoNext
  /\ video.ended
  /\ videoEndedListener.id # 0
  /\ ~videoEndedListener.interval
  /\ listeners[videoEndedListener.id].failed
  /\ listeners[videoEndedListener.id].advanced
  /\ listeners[videoEndedListener.id].handlers
\* the read of line 840 has been answered and no storage read is under way
NoReadPending ==
  /\ disable.load = "none"
  /\ disable.gets = 0
  /\ ~disable.final

\* C26: once the panel's listeners are set up and no storage read or write
\* is under way, videoAutoAdvanceEnabled in memory equals the stored flag,
\* however the toggle click, the callback of the flag's load and the timers
\* of the automatic switch-off interleave.
C26_MemoryEqualsStored ==
  NoReadPending => videoAutoAdvanceEnabled = stored
\* the key is missing, empty or made of blanks
Blank(apiKey) == Trim(apiKey) = <<>>

\* a handler's storage read of the key is answered in this step
SingleReadsKey == single.pc = "checkKey" /\ single'.pc # "checkKey"

LoopReadsKey(i) == loops[i].pc = "checkKey" /\ loops'[i].pc # "checkKey"

WoReadsKey == wo.pc = "checkKey" /\ wo'.pc # "checkKey"

\* C27 as stated: no oracle request is ever sent while the stored apiKey is
\* missing, empty or blank.
C27_NoRequestWithoutStoredKey ==
  [][ev'.kind = "request" /\ ev' # ev => ~Blank(storage.apiKey)]_vars

\* C27, for the click: when the apiKey read by checkApiKey is missing, empty
\* or blank, the handler of Autofill, of Run All and of Autofill Working Out
\* returns at once: it sends no request, clicks nothing, reports nothing and
\* leaves isAutoRunning as it is; and every request that is sent carries a
\* key that is not blank, the one its handler read.  A run started with a
\* key goes on sending requests with it after the stored key is cleared.
C27_NoKeyNoSolve ==
  [][/\ Blank(storage.apiKey)
          => /\ SingleReadsKey => single'.pc = "returned"
             /\ WoReadsKey => wo'.pc = "returned" /\ math' = math
             /\ \A i \in LoopIds : LoopReadsKey(i) => loops'[i].pc = "returned"
             /\ SingleReadsKey \/ WoReadsKey \/ (\E i \in LoopIds : LoopReadsKey(i))
                  => /\ ev' = NoEvent
                     /\ isAutoRunning' = isAutoRunning
                     /\ status' = status
     /\ ev'.kind = "request" => ~Blank(ev'.key)]_vars

\* Run All was clicked without a key: its handler returned, and nothing runs
C27_Witness ==
  /\ Blank(storage.apiKey)
  /\ loops[1].pc = "returned"
  /\ single.pc = "returned"
  /\ wo.pc = "returned"
  /\ ~isAutoRunning
\* the loop of the one Run All click is running, and it has ended
Live1 == loops[1].pc \in LivePcs

Ended1 == loops[1].pc = "done" /\ ~isAutoRunning

\* the loop ends in this step
Ends1 == Live1 /\ loops'[1].pc = "done"

\* the statuses the loop reported in this step
SaidNow == {ev'.said[k] : k \in DOMAIN ev'.said}

C29_AtMostOnePanel ==
  [][/\ panel'.elements <= 1
     /\ panel'.attached <= panel'.elements
     /\ panel'.made <=> panel'.elements = 1
     /\ panel'.elements > panel.elements => ~panel.made
     /\ ~panel.hidden /\ panel'.hidden
          => /\ panel'.elements = panel.elements
             /\ panel'.attached = panel.attached
             /\ panel'.made = panel.made]_vars

\* the panel was shown, then closed: it is hidden, and still the one element
\* in the document
C29_Witness ==
  /\ panel.made
  /\ panel.hidden
  /\ panel.elements = 1
  /\ panel.attached = 1
====
